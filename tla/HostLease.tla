------------------------------ MODULE HostLease ------------------------------
(***************************************************************************)
(* What the dashboard's inventory promises about the machines of a lab,    *)
(* whoever writes the rows and from whatever copy: a machine is marked     *)
(* taken before or when it enters a pod, and it leaves a pod for nobody    *)
(* before it enters another.  PodLifecycle implements this specification.  *)
(***************************************************************************)
CONSTANTS Hosts, Pods, None

VARIABLES
    taken,      \* machines acquireHost does not give out
    holder      \* the pod a machine is in

lease == <<taken, holder>>

Init ==
    /\ taken = {}
    /\ holder = [h \in Hosts |-> None]

(* A free machine is set aside.                                            *)
Reserve(h) ==
    /\ h \notin taken
    /\ taken' = taken \cup {h}
    /\ UNCHANGED holder

(* A machine nobody holds enters a pod, and is marked taken with it.       *)
Enter(h, b) ==
    /\ holder[h] = None
    /\ holder' = [holder EXCEPT ![h] = b]
    /\ taken' = taken \cup {h}

(* Machines are given back.                                                *)
Return(H) ==
    /\ taken' = taken \ H
    /\ holder' = [h \in Hosts |-> IF h \in H THEN None ELSE holder[h]]

(* A pod is dissolved and its machines stay marked.                        *)
Dissolve(b) ==
    /\ holder' = [h \in Hosts |-> IF holder[h] = b THEN None ELSE holder[h]]
    /\ UNCHANGED taken

Next ==
    \/ \E h \in Hosts : Reserve(h)
    \/ \E h \in Hosts, b \in Pods : Enter(h, b)
    \/ \E H \in SUBSET Hosts : Return(H)
    \/ \E b \in Pods : Dissolve(b)

Spec == Init /\ [][Next]_lease
=============================================================================
