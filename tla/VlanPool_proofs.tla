--------------------------- MODULE VlanPool_proofs ---------------------------
(***************************************************************************)
(* Proofs about VlanPool for any lab, any templates and any number of      *)
(* overlapping runs of booking_poll.                                       *)
(***************************************************************************)
EXTENDS VlanPool, TLAPS

(* The networks of a template are networks.                                *)
LEMMA NetworksOfType == \A b \in Bookings : NetworksOf(b) \subseteq Networks
BY TemplateAssumption DEF NetworksOf

(* The idle run and a run that begins.                                     *)
LEMMA IdlePollType ==
  /\ IdlePoll \in Polls
  /\ \A b \in Bookings, H \in SUBSET Hosts :
       [IdlePoll EXCEPT !.cur = b, !.hosts = H] \in Polls
BY DEF IdlePoll, Polls

(* Replacing the record of one run by another record.                      *)
LEMMA PollUpdate ==
  ASSUME PollsOK, NEW p \in Pollers, NEW r \in Polls,
         r.port # None => r.host # None, r.host # None => r.cur # None,
         poll' = [poll EXCEPT ![p] = r]
  PROVE  PollsOK'
BY DEF PollsOK

(* Types in the initial state.                                             *)
LEMMA TypeInit == Init => TypeOK
<1>. SUFFICES ASSUME Init PROVE TypeOK
  OBVIOUS
<1>1. web \in Webs /\ web.op = "idle"
  BY DEF Init, IdleWeb, Webs
<1>2. poll \in [Pollers -> Polls] /\ \A p \in Pollers : poll[p].host = None /\ poll[p].port = None
  BY IdlePollType DEF Init, IdlePoll
<1>3. vmap \in [Bookings -> [Networks -> Ids \cup {None}]]
  BY DEF Init
<1>. QED BY <1>1, <1>2, <1>3 DEF Init, TypeOK, PollsOK, Phases

----------------------------------------------------------------------------
(* Types are kept by every step.                                           *)
LEMMA TypeStep == TypeOK /\ [Next]_vars => TypeOK'
<1>. SUFFICES ASSUME TypeOK, [Next]_vars PROVE TypeOK'
  OBVIOUS
<1>. USE NullAssumption DEF histVars
<1>0. ASSUME UNCHANGED poll PROVE PollsOK'
  BY <1>0 DEF TypeOK, PollsOK
<1>1. ASSUME NEW b \in Bookings, StartConvert(b) PROVE TypeOK'
  BY <1>0, <1>1, NetworksOfType DEF StartConvert, TypeOK, Webs
<1>2. ASSUME NEW b \in Bookings, DeleteBooking(b) PROVE TypeOK'
  BY <1>0, <1>2 DEF DeleteBooking, ReleasePod, TypeOK, Phases
<1>3. ASSUME NEW n \in Networks, ReservePublic(n) PROVE TypeOK'
  <2>1. web.b \in Bookings /\ web' \in Webs /\ web'.b = web.b
    BY <1>3 DEF ReservePublic, TypeOK, Webs
  <2>2. PICK v \in PublicVlans : inUse' = inUse \cup {v} /\ vmap' = [vmap EXCEPT ![web.b][n] = v]
    BY <1>3 DEF ReservePublic
  <2>3. vmap' \in [Bookings -> [Networks -> Ids \cup {None}]]
    BY <2>1, <2>2 DEF TypeOK, Ids
  <2>. QED BY <1>0, <1>3, <2>1, <2>2, <2>3 DEF ReservePublic, TypeOK
<1>4. ASSUME NEW n \in Networks, ReservePrivate(n) PROVE TypeOK'
  <2>1. PICK v \in web.row :
          /\ web' = [web EXCEPT !.todo = @ \ {n}, !.row = @ \ {v}]
          /\ pool' = web.row \ {v} /\ lost' = (lost \/ web.row # pool)
          /\ vmap' = [vmap EXCEPT ![web.b][n] = v]
    BY <1>4 DEF ReservePrivate, SavePool
  <2>2. web.b \in Bookings /\ v \in Vlans
    BY <1>4, <2>1 DEF ReservePrivate, TypeOK, Webs
  <2>3. web' \in Webs /\ web'.b = web.b
    BY <2>1 DEF TypeOK, Webs
  <2>4. vmap' \in [Bookings -> [Networks -> Ids \cup {None}]]
    BY <2>1, <2>2 DEF TypeOK, Ids
  <2>5. pool' \subseteq Vlans /\ lost' \in BOOLEAN
    BY <2>1 DEF TypeOK, Webs
  <2>. QED BY <1>0, <1>4, <2>2, <2>3, <2>4, <2>5 DEF ReservePrivate, TypeOK
<1>5. ASSUME NEW n \in Networks, ReleasePublic(n) PROVE TypeOK'
  <2>1. web.b \in Bookings /\ web \in Webs
    BY <1>5 DEF ReleasePublic, TypeOK
  <2>2. \/ web' = IdleWeb
        \/ web' = [web EXCEPT !.todo = @ \ {n}]
    BY <1>5 DEF ReleasePublic
  <2>3. web' \in Webs /\ (web'.op # "idle" => web'.b \in Bookings)
    BY <2>1, <2>2 DEF Webs, IdleWeb
  <2>4. inUse' \subseteq PublicVlans /\ phase' \in [Bookings -> Phases]
    BY <1>5, <2>1 DEF ReleasePublic, TypeOK, Phases
  <2>. QED BY <1>0, <1>5, <2>3, <2>4 DEF ReleasePublic, TypeOK
<1>6. ASSUME NEW n \in Networks, ReleasePrivate(n) PROVE TypeOK'
  BY <1>0, <1>6 DEF ReleasePrivate, SavePool, TypeOK, Webs
<1>7. ASSUME NEW h \in Hosts, AcquireHost(h) PROVE TypeOK'
  <2>1. web' \in Webs /\ web'.b = web.b /\ web.b \in Bookings
    <3>1. web \in Webs /\ web.b \in Bookings /\ web' = [web EXCEPT !.next = @ + 1]
      BY <1>7 DEF AcquireHost, TypeOK
    <3>. QED BY <3>1 DEF Webs
  <2>2. config' \in [Hosts -> [Ports -> SUBSET Ids]]
    BY <1>7 DEF AcquireHost, TypeOK
  <2>3. pod' \in [Hosts -> Bookings \cup {None}]
    BY <1>7, <2>1 DEF AcquireHost, TypeOK
  <2>. QED BY <1>0, <1>7, <2>1, <2>2, <2>3 DEF AcquireHost, TypeOK
<1>8. CASE FailConvert
  BY <1>0, <1>8 DEF FailConvert, TypeOK, Webs, IdleWeb, Phases
<1>9. CASE FailAcquire
  BY <1>0, <1>9, NetworksOfType DEF FailAcquire, TypeOK, Webs
<1>10. CASE FinishUndo
  BY <1>0, <1>10 DEF FinishUndo, ReleasePod, TypeOK, Webs, IdleWeb, Phases
<1>11. ASSUME NEW R \in SUBSET Hosts, FinishConvert(R) PROVE TypeOK'
  BY <1>0, <1>11 DEF FinishConvert, TypeOK, Webs, IdleWeb, Phases
<1>12. ASSUME NEW b \in Bookings, EndBooking(b) \/ FreePod(b) PROVE TypeOK'
  BY <1>0, <1>12 DEF EndBooking, FreePod, ReleasePod, TypeOK, Phases
<1>13. ASSUME NEW p \in Pollers, NEW b \in Bookings, PickCleanup(p, b) PROVE TypeOK'
  <2>. DEFINE r == [IdlePoll EXCEPT !.cur = b, !.hosts = rel[b]]
  <2>1. r \in Polls /\ r.port = None /\ r.host = None
    BY IdlePollType DEF TypeOK, IdlePoll
  <2>2. PollsOK'
    BY <1>13, <2>1, PollUpdate DEF PickCleanup, TypeOK
  <2>. QED BY <1>13, <2>2 DEF PickCleanup, TypeOK
<1>14. ASSUME NEW p \in Pollers, NEW h \in Hosts, PickHost(p, h) PROVE TypeOK'
  <2>. DEFINE r == [poll[p] EXCEPT !.host = h, !.ports = Ports, !.acc = {}, !.row = {},
                                   !.loaded = FALSE]
  <2>1. r \in Polls /\ r.cur # None
    <3>1. poll[p] \in Polls /\ poll[p].cur # None
      BY <1>14 DEF PickHost, TypeOK, PollsOK
    <3>. QED BY <3>1 DEF Polls
  <2>2. poll' = [poll EXCEPT ![p] = r]
    BY <1>14 DEF PickHost
  <2>3. r.port # None => r.host # None
    BY <1>14
  <2>4. PollsOK'
    BY <2>1, <2>2, <2>3, PollUpdate DEF TypeOK
  <2>. QED BY <1>14, <2>4 DEF PickHost, TypeOK
<1>15. ASSUME NEW p \in Pollers, NEW x \in Ports, ReadPort(p, x) PROVE TypeOK'
  <2>. DEFINE found == config[poll[p].host][x]
              r == [poll[p] EXCEPT !.port = x, !.acc = @ \cup (found \cap Vlans),
                                   !.row = IF found # {} /\ ~poll[p].loaded THEN pool ELSE @,
                                   !.loaded = (@ \/ found # {})]
  <2>1. poll' = [poll EXCEPT ![p] = r] /\ inUse' = inUse \ found
    BY <1>15 DEF ReadPort
  <2>2. poll[p] \in Polls /\ poll[p].host # None /\ poll[p].cur # None
    BY <1>15 DEF ReadPort, TypeOK, PollsOK
  <2>3. r \in Polls /\ r.host # None /\ r.cur # None
    BY <2>2 DEF TypeOK, Polls
  <2>4. PollsOK'
    BY <2>1, <2>3, PollUpdate DEF TypeOK
  <2>. QED BY <1>15, <2>1, <2>4 DEF ReadPort, TypeOK
<1>16. ASSUME NEW p \in Pollers, ClearPort(p) PROVE TypeOK'
  <2>. DEFINE new == poll[p].row \cup poll[p].acc
              r == [poll[p] EXCEPT !.port = None, !.ports = @ \ {poll[p].port},
                                   !.row = IF poll[p].acc # {} THEN new ELSE @]
  <2>1. poll' = [poll EXCEPT ![p] = r]
    BY <1>16 DEF ClearPort
  <2>2. poll[p] \in Polls /\ poll[p].host \in Hosts /\ poll[p].port \in Ports /\ poll[p].cur # None
    BY <1>16 DEF ClearPort, TypeOK, PollsOK, Polls
  <2>3. r \in Polls /\ r.port = None /\ r.cur # None
    BY <2>2 DEF Polls
  <2>4. PollsOK'
    BY <2>1, <2>3, PollUpdate DEF TypeOK
  <2>5. pool' \subseteq Vlans /\ lost' \in BOOLEAN
    <3>1. new \subseteq Vlans
      BY <2>2 DEF Polls
    <3>2. CASE poll[p].acc # {}
      BY <1>16, <3>1, <3>2 DEF ClearPort, SavePool
    <3>3. CASE poll[p].acc = {}
      BY <1>16, <3>3 DEF ClearPort, TypeOK
    <3>. QED BY <3>2, <3>3
  <2>6. config' \in [Hosts -> [Ports -> SUBSET Ids]]
    BY <1>16, <2>2 DEF ClearPort, TypeOK
  <2>. QED BY <1>16, <2>4, <2>5, <2>6 DEF ClearPort, TypeOK
<1>17. ASSUME NEW p \in Pollers, FinishHost(p) PROVE TypeOK'
  <2>. DEFINE r == [poll[p] EXCEPT !.host = None, !.hosts = @ \ {poll[p].host}]
  <2>1. r \in Polls /\ r.port = None /\ r.host = None
    <3>1. poll[p] \in Polls /\ poll[p].port = None
      BY <1>17 DEF FinishHost, TypeOK, PollsOK
    <3>. QED BY <3>1 DEF Polls
  <2>2. poll' = [poll EXCEPT ![p] = r] \/ poll' = [poll EXCEPT ![p] = IdlePoll]
    BY <1>17 DEF FinishHost
  <2>3. IdlePoll \in Polls /\ IdlePoll.port = None /\ IdlePoll.host = None
    BY IdlePollType DEF IdlePoll
  <2>4. PollsOK'
    BY <2>1, <2>2, <2>3, PollUpdate DEF TypeOK
  <2>. QED BY <1>17, <2>4 DEF FinishHost, TypeOK
<1>18. ASSUME NEW p \in Pollers, FinishCleanup(p) \/ AbortPoll(p) PROVE TypeOK'
  <2>1. IdlePoll \in Polls /\ IdlePoll.port = None /\ IdlePoll.host = None
    BY IdlePollType DEF IdlePoll
  <2>2. PollsOK'
    BY <1>18, <2>1, PollUpdate DEF FinishCleanup, AbortPoll, TypeOK
  <2>. QED BY <1>18, <2>2 DEF FinishCleanup, AbortPoll, TypeOK, Phases
<1>19. CASE UNCHANGED vars
  BY <1>0, <1>19 DEF vars, TypeOK
<1>. QED
  BY <1>1, <1>2, <1>3, <1>4, <1>5, <1>6, <1>7, <1>8, <1>9, <1>10, <1>11, <1>12, <1>13,
     <1>14, <1>15, <1>16, <1>17, <1>18, <1>19
     DEF Next, WebStep, PollStep

----------------------------------------------------------------------------
(* A conversion gives no id out twice.                                     *)
LEMMA ConvertStep ==
  TypeOK /\ InvConvert /\ NetworksApart /\ [Next]_vars => InvConvert' /\ NetworksApart'
<1>. SUFFICES ASSUME TypeOK, InvConvert, NetworksApart, [Next]_vars
              PROVE  InvConvert' /\ NetworksApart'
  OBVIOUS
<1>. USE NullAssumption DEF histVars
<1>1. ASSUME UNCHANGED <<vmap, web>>,
             \A b \in Bookings : phase'[b] # phase[b] =>
               phase'[b] # "unused" /\ phase[b] # "unused"
      PROVE InvConvert' /\ NetworksApart'
  BY <1>1 DEF InvConvert, NetworksApart, TypeOK
<1>2. ASSUME NEW b \in Bookings, StartConvert(b) PROVE InvConvert' /\ NetworksApart'
  <2>1. /\ web'.op = "convert" /\ web'.b = b /\ web'.row \subseteq Nat /\ web.op = "idle"
        /\ UNCHANGED <<phase, vmap>> /\ phase[b] = "unused"
    BY <1>2, VlansAssumption DEF StartConvert, TypeOK
  <2>2. \A n \in Networks : vmap[b][n] = None
    BY <2>1 DEF InvConvert
  <2>. QED BY <2>1, <2>2 DEF InvConvert, NetworksApart
<1>3. ASSUME NEW n \in Networks, ReservePublic(n) PROVE InvConvert' /\ NetworksApart'
  <2>1. PICK v \in PublicVlans : vmap' = [vmap EXCEPT ![web.b][n] = v]
    BY <1>3 DEF ReservePublic
  <2>2. /\ web.op = "convert" /\ web.b \in Bookings /\ n \in Public /\ UNCHANGED phase
        /\ web' = [web EXCEPT !.todo = @ \ {n}] /\ web \in Webs
    BY <1>3 DEF ReservePublic, TypeOK
  <2>3. web'.op = "convert" /\ web'.b = web.b /\ web'.row = web.row /\ web'.todo \subseteq web.todo
    BY <2>2 DEF Webs
  <2>4. \A b \in Bookings, m \in Networks :
          b # web.b \/ m \notin Public => vmap'[b][m] = vmap[b][m]
    BY <2>1, <2>2 DEF TypeOK
  <2>. QED BY <2>2, <2>3, <2>4 DEF InvConvert, NetworksApart
<1>4. ASSUME NEW n \in Networks, ReservePrivate(n) PROVE InvConvert' /\ NetworksApart'
  <2>1. PICK v \in web.row : /\ vmap' = [vmap EXCEPT ![web.b][n] = v]
                             /\ web' = [web EXCEPT !.todo = @ \ {n}, !.row = @ \ {v}]
    BY <1>4 DEF ReservePrivate
  <2>2. /\ web.op = "convert" /\ web.b \in Bookings /\ n \in web.todo \ Public
        /\ UNCHANGED phase /\ web \in Webs
    BY <1>4 DEF ReservePrivate, TypeOK
  <2>3. /\ web'.op = "convert" /\ web'.b = web.b /\ web'.row = web.row \ {v}
        /\ web'.todo = web.todo \ {n}
    BY <2>1, <2>2 DEF Webs
  <2>4. /\ \A b \in Bookings, m \in Networks :
             b # web.b \/ m # n => vmap'[b][m] = vmap[b][m]
        /\ vmap'[web.b][n] = v
    BY <2>1, <2>2 DEF TypeOK
  <2>5. \A m \in Networks \ Public : vmap[web.b][m] # v
    BY <2>1, <2>2 DEF InvConvert
  <2>6. InvConvert'
    BY <2>2, <2>3, <2>4 DEF InvConvert
  <2>7. NetworksApart'
    BY <2>2, <2>4, <2>5 DEF NetworksApart
  <2>. QED BY <2>6, <2>7
<1>5. ASSUME web'.op \in {"idle", "undo"}, UNCHANGED vmap,
             web'.op = "undo" => web.op # "idle" /\ web'.b = web.b /\ UNCHANGED phase,
             web'.op = "idle" => web.op # "idle" /\ phase'[web.b] # "unused",
             \A b \in Bookings : b # web.b => phase'[b] = phase[b]
      PROVE InvConvert' /\ NetworksApart'
  BY <1>5 DEF InvConvert, NetworksApart
<1>6. ASSUME FailConvert \/ FinishUndo \/ \E R \in SUBSET Hosts : FinishConvert(R)
      PROVE InvConvert' /\ NetworksApart'
  <2>1. web.b \in Bookings /\ web.op # "idle" /\ web' = IdleWeb /\ UNCHANGED vmap
    BY <1>6 DEF FailConvert, FinishUndo, FinishConvert, TypeOK
  <2>2. \E s \in {"failed", "live"} : phase' = [phase EXCEPT ![web.b] = s]
    BY <1>6 DEF FailConvert, FinishUndo, FinishConvert
  <2>. QED BY <1>5, <2>1, <2>2 DEF IdleWeb, TypeOK
<1>7. ASSUME NEW n \in Networks, ReleasePublic(n) PROVE InvConvert' /\ NetworksApart'
  <2>1. web \in Webs /\ web.op = "undo" /\ web.b \in Bookings /\ UNCHANGED vmap
    BY <1>7 DEF ReleasePublic, TypeOK
  <2>2. CASE web' = IdleWeb /\ phase' = [phase EXCEPT ![web.b] = "failed"]
    BY <1>5, <2>1, <2>2 DEF IdleWeb, TypeOK
  <2>3. CASE web' = [web EXCEPT !.todo = @ \ {n}] /\ UNCHANGED phase
    BY <1>5, <2>1, <2>3 DEF Webs
  <2>. QED BY <1>7, <2>2, <2>3 DEF ReleasePublic
<1>8. ASSUME FailAcquire \/ \E n \in Networks : ReleasePrivate(n)
      PROVE InvConvert' /\ NetworksApart'
  <2>1. web \in Webs /\ web.op # "idle" /\ UNCHANGED <<vmap, phase>>
    BY <1>8 DEF FailAcquire, ReleasePrivate, TypeOK
  <2>2. web'.op = "undo" /\ web'.b = web.b
    BY <1>8, <2>1 DEF FailAcquire, ReleasePrivate, Webs
  <2>. QED BY <1>5, <2>1, <2>2
<1>9. ASSUME NEW h \in Hosts, AcquireHost(h) PROVE InvConvert' /\ NetworksApart'
  <2>1. /\ web \in Webs /\ web' = [web EXCEPT !.next = @ + 1] /\ UNCHANGED <<vmap, phase>>
    BY <1>9 DEF AcquireHost, TypeOK
  <2>2. web'.op = web.op /\ web'.b = web.b /\ web'.row = web.row /\ web'.todo = web.todo
    BY <2>1 DEF Webs
  <2>. QED BY <2>1, <2>2 DEF InvConvert, NetworksApart
<1>10. ASSUME NEW b \in Bookings, DeleteBooking(b) \/ EndBooking(b) \/ FreePod(b)
       PROVE InvConvert' /\ NetworksApart'
  BY <1>1, <1>10 DEF DeleteBooking, EndBooking, FreePod, TypeOK
<1>11. ASSUME NEW p \in Pollers, FinishCleanup(p) PROVE InvConvert' /\ NetworksApart'
  BY <1>1, <1>11 DEF FinishCleanup, TypeOK
<1>12. ASSUME NEW p \in Pollers,
              \/ \E b \in Bookings : PickCleanup(p, b)
              \/ \E h \in Hosts : PickHost(p, h)
              \/ \E x \in Ports : ReadPort(p, x)
              \/ ClearPort(p) \/ FinishHost(p) \/ AbortPoll(p)
       PROVE UNCHANGED <<phase, vmap, web>>
  BY <1>12 DEF PickCleanup, PickHost, ReadPort, ClearPort, FinishHost, AbortPoll
<1>13. CASE UNCHANGED vars
  BY <1>1, <1>13 DEF vars
<1>. QED
  BY <1>1, <1>2, <1>3, <1>4, <1>6, <1>7, <1>8, <1>9, <1>10, <1>11, <1>12, <1>13
     DEF Next, WebStep, PollStep

----------------------------------------------------------------------------
(* Steps that wire no pod whose cleanup can have begun.                    *)
LEMMA CleanupFrame ==
  ASSUME TypeOK, InvCleanup, CleanedPodsUnwired,
         \A p \in Pollers : poll'[p] = poll[p] \/ poll'[p].cur = None,
         \A b \in Bookings :
            \/ phase'[b] = phase[b] \/ phase'[b] \in {"freed", "deleted"}
            \/ /\ phase[b] \notin {"ended", "cleaned", "freed", "deleted"}
               /\ phase'[b] # "cleaned",
         \A b \in Bookings :
            rel'[b] \subseteq rel[b] \/ phase'[b] \notin {"ended", "cleaned", "freed", "deleted"},
         \A h \in Hosts :
            \/ pod'[h] = None
            \/ phase'[pod'[h]] \notin {"ended", "cleaned", "freed", "deleted"}
            \/ /\ pod'[h] = pod[h]
               /\ \A x \in Ports : config'[h][x] = config[h][x]
  PROVE  InvCleanup' /\ CleanedPodsUnwired'
<1>. USE NullAssumption
<1>. DEFINE Over == {"ended", "cleaned", "freed", "deleted"}
<1>1. ASSUME NEW p \in Pollers, poll'[p].cur # None
      PROVE  /\ poll'[p] = poll[p] /\ poll[p].cur \in Bookings
             /\ phase[poll[p].cur] \in Over /\ phase'[poll[p].cur] \in Over
  <2>1. poll'[p] = poll[p] /\ poll[p].cur \in Bookings
    BY <1>1 DEF TypeOK, PollsOK, Polls
  <2>. QED BY <1>1, <2>1 DEF InvCleanup
<1>2. ASSUME NEW b \in Bookings, phase'[b] \in Over, NEW h \in rel'[b], pod'[h] = b
      PROVE  /\ h \in Hosts /\ h \in rel[b] /\ pod[h] = b
             /\ \A x \in Ports : config'[h][x] = config[h][x]
  <2>1. h \in rel[b] /\ h \in Hosts
    BY <1>2 DEF TypeOK
  <2>. QED BY <1>2, <2>1
<1>3. InvCleanup'
  <2>. SUFFICES ASSUME NEW p \in Pollers, poll'[p].cur # None
                PROVE  /\ phase'[poll'[p].cur] \in Over
                       /\ \A h \in rel'[poll'[p].cur], x \in Ports :
                            /\ pod'[h] = poll'[p].cur
                            /\ h \notin poll'[p].hosts \/ (h = poll'[p].host /\ x \notin poll'[p].ports)
                            => config'[h][x] = {}
    BY DEF InvCleanup
  <2>1. /\ poll'[p] = poll[p] /\ poll[p].cur \in Bookings /\ phase'[poll[p].cur] \in Over
    BY <1>1
  <2>2. ASSUME NEW h \in rel'[poll'[p].cur], NEW x \in Ports, pod'[h] = poll'[p].cur,
               h \notin poll'[p].hosts \/ (h = poll'[p].host /\ x \notin poll'[p].ports)
        PROVE  config'[h][x] = {}
    <3>1. h \in rel[poll[p].cur] /\ pod[h] = poll[p].cur /\ config'[h][x] = config[h][x]
      BY <1>2, <2>1, <2>2
    <3>. QED BY <2>1, <2>2, <3>1 DEF InvCleanup
  <2>. QED BY <2>1, <2>2
<1>4. CleanedPodsUnwired'
  <2>. SUFFICES ASSUME NEW b \in Bookings, phase'[b] = "cleaned",
                       NEW h \in rel'[b], NEW x \in Ports, pod'[h] = b
                PROVE  config'[h][x] = {}
    BY DEF CleanedPodsUnwired
  <2>1. phase[b] = "cleaned"
    OBVIOUS
  <2>2. h \in rel[b] /\ pod[h] = b /\ config'[h][x] = config[h][x]
    BY <1>2
  <2>. QED BY <2>1, <2>2 DEF CleanedPodsUnwired
<1>. QED BY <1>3, <1>4

(* One run of booking_poll moves on and nothing is wired.                  *)
LEMMA CleanupMove ==
  ASSUME TypeOK, InvCleanup, CleanedPodsUnwired, NEW p \in Pollers, NEW r \in Polls,
         poll' = [poll EXCEPT ![p] = r], UNCHANGED <<phase, rel, pod>>,
         \A h \in Hosts, x \in Ports : config'[h][x] \in {config[h][x], {}},
         r.cur # None =>
            /\ phase[r.cur] = "ended" \/ r.cur = poll[p].cur
            /\ \A h \in rel[r.cur], x \in Ports :
                 /\ pod[h] = r.cur
                 /\ h \notin r.hosts \/ (h = r.host /\ x \notin r.ports)
                 => config'[h][x] = {}
  PROVE  InvCleanup' /\ CleanedPodsUnwired'
<1>. USE NullAssumption
<1>1. \A b \in Bookings : rel[b] \subseteq Hosts
  BY DEF TypeOK
<1>2. \A q \in Pollers : poll[q] \in Polls /\ poll'[q] = IF q = p THEN r ELSE poll[q]
  BY DEF TypeOK, PollsOK
<1>3. \A q \in Pollers : poll[q].cur # None => poll[q].cur \in Bookings
  BY <1>2 DEF Polls
<1>4. r.cur # None => r.cur \in Bookings
  BY DEF Polls
<1>5. InvCleanup'
  <2>. SUFFICES ASSUME NEW q \in Pollers, poll'[q].cur # None
                PROVE  /\ phase[poll'[q].cur] \in {"ended", "cleaned", "freed", "deleted"}
                       /\ \A h \in rel[poll'[q].cur], x \in Ports :
                            /\ pod[h] = poll'[q].cur
                            /\ h \notin poll'[q].hosts \/ (h = poll'[q].host /\ x \notin poll'[q].ports)
                            => config'[h][x] = {}
    BY DEF InvCleanup
  <2>1. CASE q = p
    <3>1. poll'[q] = r /\ r.cur # None
      BY <1>2, <2>1
    <3>2. phase[r.cur] \in {"ended", "cleaned", "freed", "deleted"}
      BY <3>1 DEF InvCleanup
    <3>. QED BY <3>1, <3>2
  <2>2. CASE q # p
    <3>1. poll'[q] = poll[q]
      BY <1>2, <2>2
    <3>. QED BY <1>1, <1>3, <3>1 DEF InvCleanup
  <2>. QED BY <2>1, <2>2
<1>6. CleanedPodsUnwired'
  BY <1>1 DEF CleanedPodsUnwired
<1>. QED BY <1>5, <1>6

(* Cleaning ends with the ports of the pod unwired.                        *)
LEMMA CleanupStep ==
  TypeOK /\ InvConvert /\ InvCleanup /\ CleanedPodsUnwired /\ [Next]_vars
    => InvCleanup' /\ CleanedPodsUnwired'
<1>. SUFFICES ASSUME TypeOK, InvConvert, InvCleanup, CleanedPodsUnwired, [Next]_vars
              PROVE  InvCleanup' /\ CleanedPodsUnwired'
  OBVIOUS
<1>. USE NullAssumption DEF histVars
<1>1. ASSUME UNCHANGED <<config, pod, phase, rel, poll>> PROVE InvCleanup' /\ CleanedPodsUnwired'
  BY <1>1, CleanupFrame
<1>2. ASSUME \/ \E b \in Bookings : StartConvert(b)
             \/ \E n \in Networks : ReservePublic(n) \/ ReservePrivate(n) \/ ReleasePrivate(n)
             \/ FailAcquire
      PROVE InvCleanup' /\ CleanedPodsUnwired'
  <2>1. UNCHANGED <<config, pod, phase, rel, poll>>
    BY <1>2 DEF StartConvert, ReservePublic, ReservePrivate, ReleasePrivate, FailAcquire
  <2>. QED BY <1>1, <2>1
<1>3. ASSUME NEW n \in Networks, ReleasePublic(n) PROVE InvCleanup' /\ CleanedPodsUnwired'
  <2>1. /\ UNCHANGED <<config, pod, rel, poll>> /\ phase[web.b] = "unused" /\ web.b \in Bookings
        /\ UNCHANGED phase \/ phase' = [phase EXCEPT ![web.b] = "failed"]
    BY <1>3 DEF ReleasePublic, InvConvert, TypeOK
  <2>2. \A b \in Bookings : \/ phase'[b] = phase[b]
                            \/ phase[b] = "unused" /\ phase'[b] = "failed"
    BY <2>1 DEF TypeOK
  <2>. QED BY <2>1, <2>2, CleanupFrame
<1>4. ASSUME NEW h \in Hosts, AcquireHost(h) PROVE InvCleanup' /\ CleanedPodsUnwired'
  <2>1. UNCHANGED <<phase, rel, poll>> /\ phase[web.b] = "unused" /\ web.b \in Bookings
    BY <1>4 DEF AcquireHost, InvConvert, TypeOK
  <2>2. \A g \in Hosts : IF g = h THEN pod'[g] = web.b
                         ELSE pod'[g] = pod[g] /\ \A x \in Ports : config'[g][x] = config[g][x]
    BY <1>4 DEF AcquireHost, TypeOK
  <2>. QED BY <2>1, <2>2, CleanupFrame
<1>5. ASSUME FailConvert \/ FinishUndo \/ \E R \in SUBSET Hosts : FinishConvert(R)
      PROVE InvCleanup' /\ CleanedPodsUnwired'
  <2>1. /\ UNCHANGED <<config, poll>> /\ phase[web.b] = "unused" /\ web.b \in Bookings
        /\ \E s \in {"failed", "live"} : phase' = [phase EXCEPT ![web.b] = s]
    BY <1>5 DEF FailConvert, FinishUndo, FinishConvert, InvConvert, TypeOK
  <2>2. \A b \in Bookings : IF b = web.b THEN phase'[b] \in {"failed", "live"}
                            ELSE phase'[b] = phase[b]
    BY <2>1 DEF TypeOK
  <2>3. \A h \in Hosts : pod'[h] \in {pod[h], None}
    BY <1>5 DEF FailConvert, FinishUndo, FinishConvert, ReleasePod, TypeOK
  <2>4. \A b \in Bookings : b # web.b => rel'[b] = rel[b]
    BY <1>5 DEF FailConvert, FinishUndo, FinishConvert, TypeOK
  <2>. QED BY <2>1, <2>2, <2>3, <2>4, CleanupFrame
<1>6. ASSUME NEW b \in Bookings, DeleteBooking(b) \/ EndBooking(b) \/ FreePod(b)
      PROVE InvCleanup' /\ CleanedPodsUnwired'
  <2>1. UNCHANGED <<config, poll>>
    BY <1>6 DEF DeleteBooking, EndBooking, FreePod
  <2>2. \A c \in Bookings : /\ \/ phase'[c] = phase[c] \/ phase'[c] \in {"freed", "deleted"}
                               \/ phase[c] = "live" /\ phase'[c] = "ended"
                            /\ rel'[c] \subseteq rel[c]
    BY <1>6 DEF DeleteBooking, EndBooking, FreePod, TypeOK
  <2>3. \A h \in Hosts : pod'[h] \in {pod[h], None}
    BY <1>6 DEF DeleteBooking, EndBooking, FreePod, ReleasePod, TypeOK
  <2>. QED BY <2>1, <2>2, <2>3, CleanupFrame
<1>7. ASSUME NEW p \in Pollers, NEW b \in Bookings, PickCleanup(p, b)
      PROVE InvCleanup' /\ CleanedPodsUnwired'
  <2>. DEFINE r == [IdlePoll EXCEPT !.cur = b, !.hosts = rel[b]]
  <2>1. rel[b] \subseteq Hosts
    BY DEF TypeOK
  <2>2. r \in Polls /\ r.cur = b /\ r.hosts = rel[b] /\ r.host = None
    BY <2>1, IdlePollType DEF IdlePoll
  <2>3. poll' = [poll EXCEPT ![p] = r] /\ phase[b] = "ended" /\ UNCHANGED <<config, pod, phase, rel>>
    BY <1>7 DEF PickCleanup
  <2>. QED BY <2>1, <2>2, <2>3, CleanupMove
<1>8. ASSUME NEW p \in Pollers, NEW h \in Hosts, PickHost(p, h)
      PROVE InvCleanup' /\ CleanedPodsUnwired'
  <2>. DEFINE r == [poll[p] EXCEPT !.host = h, !.ports = Ports, !.acc = {}, !.row = {},
                                   !.loaded = FALSE]
  <2>1. poll[p] \in Polls /\ poll[p].cur # None
    BY <1>8 DEF PickHost, TypeOK, PollsOK
  <2>2. r \in Polls /\ r.cur = poll[p].cur /\ r.hosts = poll[p].hosts /\ r.ports = Ports
    BY <2>1 DEF Polls
  <2>3. poll' = [poll EXCEPT ![p] = r] /\ UNCHANGED <<config, pod, phase, rel>>
    BY <1>8 DEF PickHost
  <2>4. \A g \in rel[r.cur], x \in Ports :
          pod[g] = r.cur /\ (g \notin r.hosts \/ (g = r.host /\ x \notin r.ports)) => config'[g][x] = {}
    BY <2>1, <2>2, <2>3 DEF InvCleanup
  <2>. QED BY <2>2, <2>3, <2>4, CleanupMove
<1>9. ASSUME NEW p \in Pollers, NEW x \in Ports, ReadPort(p, x)
      PROVE InvCleanup' /\ CleanedPodsUnwired'
  <2>. DEFINE found == config[poll[p].host][x]
              r == [poll[p] EXCEPT !.port = x, !.acc = @ \cup (found \cap Vlans),
                                   !.row = IF found # {} /\ ~poll[p].loaded THEN pool ELSE @,
                                   !.loaded = (@ \/ found # {})]
  <2>1. poll[p] \in Polls /\ poll[p].cur # None
    BY <1>9 DEF ReadPort, TypeOK, PollsOK
  <2>2. /\ r \in Polls /\ r.cur = poll[p].cur /\ r.hosts = poll[p].hosts
        /\ r.ports = poll[p].ports /\ r.host = poll[p].host
    BY <2>1 DEF TypeOK, Polls
  <2>3. poll' = [poll EXCEPT ![p] = r] /\ UNCHANGED <<config, pod, phase, rel>>
    BY <1>9 DEF ReadPort
  <2>4. \A g \in rel[r.cur], y \in Ports :
          pod[g] = r.cur /\ (g \notin r.hosts \/ (g = r.host /\ y \notin r.ports)) => config'[g][y] = {}
    BY <2>1, <2>2, <2>3 DEF InvCleanup
  <2>. QED BY <2>2, <2>3, <2>4, CleanupMove
<1>10. ASSUME NEW p \in Pollers, ClearPort(p) PROVE InvCleanup' /\ CleanedPodsUnwired'
  <2>. DEFINE new == poll[p].row \cup poll[p].acc
              r == [poll[p] EXCEPT !.port = None, !.ports = @ \ {poll[p].port},
                                   !.row = IF poll[p].acc # {} THEN new ELSE @]
  <2>1. /\ poll[p] \in Polls /\ poll[p].cur # None
        /\ poll[p].host \in Hosts /\ poll[p].port \in Ports
    BY <1>10 DEF ClearPort, TypeOK, PollsOK, Polls
  <2>2. /\ r \in Polls /\ r.cur = poll[p].cur /\ r.hosts = poll[p].hosts
        /\ r.ports = poll[p].ports \ {poll[p].port} /\ r.host = poll[p].host
    BY <2>1 DEF Polls
  <2>3. /\ poll' = [poll EXCEPT ![p] = r] /\ UNCHANGED <<pod, phase, rel>>
        /\ config' = [config EXCEPT ![poll[p].host][poll[p].port] = {}]
    BY <1>10 DEF ClearPort
  <2>4. /\ \A g \in Hosts, y \in Ports : config'[g][y] \in {config[g][y], {}}
        /\ config'[poll[p].host][poll[p].port] = {}
    BY <2>1, <2>3 DEF TypeOK
  <2>5. poll[p].cur \in Bookings /\ rel[poll[p].cur] \subseteq Hosts
    BY <2>1 DEF TypeOK, Polls
  <2>6. \A g \in rel[r.cur], y \in Ports :
          pod[g] = r.cur /\ (g \notin r.hosts \/ (g = r.host /\ y \notin r.ports)) => config'[g][y] = {}
    BY <2>1, <2>2, <2>4, <2>5 DEF InvCleanup
  <2>. HIDE DEF r
  <2>. QED BY <2>2, <2>3, <2>4, <2>6, CleanupMove
<1>11. ASSUME NEW p \in Pollers, FinishHost(p) PROVE InvCleanup' /\ CleanedPodsUnwired'
  <2>. DEFINE r == [poll[p] EXCEPT !.host = None, !.hosts = @ \ {poll[p].host}]
  <2>1. /\ poll[p] \in Polls /\ poll[p].cur # None /\ poll[p].ports = {}
        /\ UNCHANGED <<config, pod, phase, rel>>
    BY <1>11 DEF FinishHost, TypeOK, PollsOK
  <2>2. CASE poll' = [poll EXCEPT ![p] = r]
    <3>1. /\ r \in Polls /\ r.cur = poll[p].cur /\ r.hosts = poll[p].hosts \ {poll[p].host}
          /\ r.ports = {} /\ r.host = None
      BY <2>1 DEF Polls
    <3>2. poll[p].cur \in Bookings /\ rel[poll[p].cur] \subseteq Hosts
      BY <2>1 DEF TypeOK, Polls
    <3>3. \A g \in rel[r.cur], y \in Ports :
            pod[g] = r.cur /\ (g \notin r.hosts \/ (g = r.host /\ y \notin r.ports)) => config'[g][y] = {}
      BY <2>1, <3>1, <3>2 DEF InvCleanup
    <3>. QED BY <2>1, <2>2, <3>1, <3>3, CleanupMove
  <2>3. CASE poll' = [poll EXCEPT ![p] = IdlePoll]
    BY <2>1, <2>3, IdlePollType, CleanupMove DEF IdlePoll
  <2>. QED BY <1>11, <2>2, <2>3 DEF FinishHost
<1>12. ASSUME NEW p \in Pollers, FinishCleanup(p) PROVE InvCleanup' /\ CleanedPodsUnwired'
  <2>. DEFINE b == poll[p].cur
  <2>1. /\ b \in Bookings /\ rel[b] \subseteq Hosts
        /\ poll[p].hosts = {} /\ UNCHANGED <<config, pod, rel>>
        /\ poll' = [poll EXCEPT ![p] = IdlePoll]
        /\ phase' = IF phase[b] = "ended" THEN [phase EXCEPT ![b] = "cleaned"] ELSE phase
    BY <1>12 DEF FinishCleanup, TypeOK, PollsOK, Polls
  <2>2. \A h \in rel[b], x \in Ports : pod[h] = b => config[h][x] = {}
    BY <2>1 DEF InvCleanup
  <2>3. \A q \in Pollers : poll'[q] = poll[q] \/ poll'[q].cur = None
    BY <2>1 DEF TypeOK, PollsOK, IdlePoll
  <2>4. \A c \in Bookings : phase'[c] = phase[c] \/ (c = b /\ phase[c] = "ended" /\ phase'[c] = "cleaned")
    BY <2>1 DEF TypeOK
  <2>5. CleanedPodsUnwired'
    BY <2>1, <2>2, <2>4 DEF CleanedPodsUnwired
  <2>6. InvCleanup'
    <3>1. \A q \in Pollers : poll[q].cur # None => poll[q].cur \in Bookings
      BY DEF TypeOK, PollsOK, Polls
    <3>. QED BY <2>1, <2>3, <2>4, <3>1 DEF InvCleanup
  <2>. QED BY <2>5, <2>6
<1>13. ASSUME NEW p \in Pollers, AbortPoll(p) PROVE InvCleanup' /\ CleanedPodsUnwired'
  <2>1. poll' = [poll EXCEPT ![p] = IdlePoll] /\ UNCHANGED <<config, pod, phase, rel>>
    BY <1>13 DEF AbortPoll
  <2>. QED BY <2>1, IdlePollType, CleanupMove DEF IdlePoll
<1>14. CASE UNCHANGED vars
  BY <1>1, <1>14 DEF vars
<1>. QED
  BY <1>2, <1>3, <1>4, <1>5, <1>6, <1>7, <1>8, <1>9, <1>10, <1>11, <1>12, <1>13, <1>14
     DEF Next, WebStep, PollStep

----------------------------------------------------------------------------
(* The inductive invariant holds in every reachable state.                 *)
THEOREM VlanInvariant == Spec => []IInv
<1>1. Init => IInv
  <2>. SUFFICES ASSUME Init PROVE IInv
    OBVIOUS
  <2>1. TypeOK
    BY TypeInit
  <2>2. InvConvert /\ NetworksApart /\ CleanedPodsUnwired
    BY DEF Init, IdleWeb, InvConvert, NetworksApart, CleanedPodsUnwired
  <2>3. InvCleanup
    BY DEF Init, IdlePoll, InvCleanup
  <2>. QED BY <2>1, <2>2, <2>3 DEF IInv
<1>2. IInv /\ [Next]_vars => IInv'
  BY TypeStep, ConvertStep, CleanupStep DEF IInv
<1>. QED BY <1>1, <1>2, PTL DEF Spec

(* Every variable keeps its type.                                          *)
THEOREM VlanTypes == Spec => []TypeOK
<1>1. IInv => TypeOK
  BY DEF IInv
<1>. QED BY <1>1, VlanInvariant, PTL

(* convertResourceBundle reserves different ids for the networks of one    *)
(* pod, whatever booking_poll saves to the pool meanwhile.                 *)
THEOREM DistinctVlans == Spec => []NetworksApart
<1>1. IInv => NetworksApart
  BY DEF IInv
<1>. QED BY <1>1, VlanInvariant, PTL

(* When booking_poll completes a job the ports of the pod are unwired, for *)
(* any number of overlapping and restarted runs.                           *)
THEOREM CleanedUnwired == Spec => []CleanedPodsUnwired
<1>1. IInv => CleanedPodsUnwired
  BY DEF IInv
<1>. QED BY <1>1, VlanInvariant, PTL

----------------------------------------------------------------------------
(* The second invariant: where every id is. *)

(* The fields of a run.                                                    *)
LEMMA RunTypes ==
  ASSUME TypeOK, NEW p \in Pollers
  PROVE  /\ poll[p] \in Polls
         /\ poll[p].port # None => poll[p].port \in Ports /\ poll[p].host # None
         /\ poll[p].host # None => poll[p].host \in Hosts /\ poll[p].cur # None
         /\ poll[p].cur # None => poll[p].cur \in Bookings
<1>1. poll[p] \in Polls
  BY DEF TypeOK, PollsOK
<1>. QED BY <1>1 DEF TypeOK, PollsOK, Polls

(* A pod that stays a pod.                                                 *)
Kept(b) ==
  /\ phase[b] \in Standing /\ rel'[b] = rel[b]
  /\ \A h \in Hosts : /\ pod'[h] = b <=> pod[h] = b
                      /\ pod[h] = b => config'[h] = config[h]
  /\ phase'[b] = phase[b] \/ (phase[b] = "live" /\ phase'[b] = "ended")

(* The web worker touches no pod but the one it makes or deletes.          *)
LEMMA PodsKept ==
  ASSUME TypeOK, InvConvert, InvGiven, NEW b \in Bookings, phase'[b] \in Standing,
         WebStep \/ \E c \in Bookings : EndBooking(c) \/ FreePod(c)
  PROVE  Kept(b) \/ (web.op = "convert" /\ web.b = b /\ \E R \in SUBSET Hosts : FinishConvert(R))
<1>. USE NullAssumption DEF histVars, Standing, Kept
<1>1. ASSUME UNCHANGED <<phase, rel, pod, config>> PROVE Kept(b)
  BY <1>1
<1>2. CASE \/ \E c \in Bookings : StartConvert(c)
           \/ \E n \in Networks : ReservePublic(n) \/ ReservePrivate(n) \/ ReleasePrivate(n)
           \/ FailAcquire
  <2>1. UNCHANGED <<phase, rel, pod, config>>
    BY <1>2 DEF StartConvert, ReservePublic, ReservePrivate, ReleasePrivate, FailAcquire
  <2>. QED BY <1>1, <2>1
<1>3. CASE FailConvert \/ (\E n \in Networks : ReleasePublic(n))
  BY <1>3 DEF FailConvert, ReleasePublic, TypeOK
<1>4. ASSUME NEW c \in Bookings, DeleteBooking(c) PROVE Kept(b)
  <2>1. b # c /\ phase'[b] = phase[b] /\ rel'[b] = rel[b]
    BY <1>4 DEF DeleteBooking, TypeOK
  <2>2. config' = config /\ ReleasePod(c)
    BY <1>4 DEF DeleteBooking
  <2>. QED BY <2>1, <2>2 DEF ReleasePod, TypeOK
<1>5. ASSUME NEW c \in Bookings, FreePod(c) PROVE Kept(b)
  <2>1. b # c /\ phase'[b] = phase[b] /\ rel'[b] = rel[b]
    BY <1>5 DEF FreePod, TypeOK
  <2>2. config' = config /\ ReleasePod(c)
    BY <1>5 DEF FreePod
  <2>. QED BY <2>1, <2>2 DEF ReleasePod, TypeOK
<1>6. CASE FinishUndo
  <2>1. b # web.b /\ phase'[b] = phase[b] /\ rel'[b] = rel[b]
    BY <1>6 DEF FinishUndo, TypeOK
  <2>2. config' = config /\ ReleasePod(web.b)
    BY <1>6 DEF FinishUndo
  <2>. QED BY <2>1, <2>2 DEF ReleasePod, TypeOK
<1>7. ASSUME NEW c \in Bookings, EndBooking(c) PROVE Kept(b)
  BY <1>7 DEF EndBooking, TypeOK
<1>8. ASSUME NEW h \in Hosts, AcquireHost(h) PROVE Kept(b)
  <2>1. /\ phase' = phase /\ rel' = rel /\ web.b # b /\ pod[h] = None
        /\ pod' = [pod EXCEPT ![h] = web.b]
        /\ \A g \in Hosts : g # h => config'[g] = config[g]
    BY <1>8 DEF AcquireHost, InvConvert, TypeOK
  <2>. QED BY <2>1 DEF TypeOK
<1>9. ASSUME NEW R \in SUBSET Hosts, FinishConvert(R), web.b # b PROVE Kept(b)
  BY <1>9 DEF FinishConvert, TypeOK
<1>. QED BY <1>2, <1>3, <1>4, <1>5, <1>6, <1>7, <1>8, <1>9 DEF WebStep, FinishConvert

(* What the web worker leaves alone.                                       *)
LEMMA WebBeside ==
  ASSUME WebStep \/ \E c \in Bookings : EndBooking(c) \/ FreePod(c)
  PROVE  UNCHANGED <<poll, cleaning>> /\ broken \subseteq broken'
BY DEF histVars, WebStep, StartConvert, DeleteBooking, ReservePublic, ReservePrivate, ReleasePublic,
   ReleasePrivate, AcquireHost, FailConvert, FailAcquire, FinishUndo, FinishConvert, EndBooking, FreePod

(* What a run of booking_poll leaves alone.                                *)
LEMMA RunBeside ==
  ASSUME TypeOK, NEW p \in Pollers, PollStep(p)
  PROVE  /\ UNCHANGED <<pod, rel, vmap, web>>
         /\ broken \subseteq broken' /\ cleaning \subseteq cleaning'
         /\ \A q \in Pollers : q # p => poll'[q] = poll[q]
         /\ \A b \in Bookings : \/ phase'[b] = phase[b]
                                \/ (b = poll[p].cur /\ phase[b] = "ended" /\ phase'[b] = "cleaned")
         /\ \A h \in Hosts : h # poll[p].host \/ poll[p].port = None => config'[h] = config[h]
         /\ \A h \in Hosts, x \in Ports : config'[h][x] \subseteq config[h][x]
<1>. USE DEF histVars
<1>1. UNCHANGED <<pod, rel, vmap, web>> /\ broken \subseteq broken' /\ cleaning \subseteq cleaning'
  BY DEF PollStep, PickCleanup, PickHost, ReadPort, ClearPort, FinishHost, FinishCleanup, AbortPoll
<1>2. \A q \in Pollers : q # p => poll'[q] = poll[q]
  BY DEF PollStep, PickCleanup, PickHost, ReadPort, ClearPort, FinishHost, FinishCleanup, AbortPoll,
     TypeOK, PollsOK
<1>3. \A b \in Bookings : \/ phase'[b] = phase[b]
                          \/ (b = poll[p].cur /\ phase[b] = "ended" /\ phase'[b] = "cleaned")
  BY DEF PollStep, PickCleanup, PickHost, ReadPort, ClearPort, FinishHost, FinishCleanup, AbortPoll,
     TypeOK
<1>4. \/ config' = config
      \/ poll[p].port # None /\ config' = [config EXCEPT ![poll[p].host][poll[p].port] = {}]
  BY DEF PollStep, PickCleanup, PickHost, ReadPort, ClearPort, FinishHost, FinishCleanup, AbortPoll
<1>5. ASSUME poll[p].port # None, config' = [config EXCEPT ![poll[p].host][poll[p].port] = {}]
      PROVE  /\ \A h \in Hosts : h # poll[p].host => config'[h] = config[h]
             /\ \A h \in Hosts, x \in Ports : config'[h][x] \subseteq config[h][x]
  <2>1. poll[p].host \in Hosts /\ poll[p].port \in Ports
    BY <1>5, RunTypes
  <2>2. config \in [Hosts -> [Ports -> SUBSET Ids]]
    BY DEF TypeOK
  <2>. QED BY <1>5, <2>1, <2>2
<1>. QED BY <1>1, <1>2, <1>3, <1>4, <1>5

(* Which ids are given, and to whom hosts belong.                          *)
LEMMA GivenStep ==
  ASSUME TypeOK, InvConvert, InvGiven, [Next]_vars
  PROVE  InvGiven'
<1>. USE NullAssumption DEF histVars
<1>1. ASSUME UNCHANGED vmap, web'.op = web.op, web'.b = web.b \/ web.op = "idle",
             \A b \in Bookings : phase'[b] = "unused" => phase[b] = "unused",
             \A h \in Hosts : pod'[h] \in {pod[h], None}
      PROVE  InvGiven'
  BY <1>1 DEF InvGiven, TypeOK
<1>2. ASSUME NEW b \in Bookings, StartConvert(b) PROVE InvGiven'
  BY <1>2 DEF StartConvert, InvGiven
<1>3. ASSUME NEW n \in Networks, ReservePublic(n) PROVE InvGiven'
  <2>1. web' = [web EXCEPT !.todo = @ \ {n}] /\ web \in Webs /\ UNCHANGED <<pod, phase>>
    BY <1>3 DEF ReservePublic, TypeOK
  <2>2. web'.op = web.op /\ web'.b = web.b
    BY <2>1 DEF Webs
  <2>3. PICK v \in PublicVlans : n \in Public /\ vmap' = [vmap EXCEPT ![web.b][n] = v]
    BY <1>3 DEF ReservePublic
  <2>4. \A c \in Bookings, m \in Networks : vmap'[c][m] = vmap[c][m] \/ (m = n /\ vmap'[c][m] = v)
    BY <2>3 DEF TypeOK
  <2>. QED BY <2>1, <2>2, <2>3, <2>4 DEF InvGiven
<1>4. ASSUME NEW n \in Networks, ReservePrivate(n) PROVE InvGiven'
  <2>1. PICK v \in web.row : /\ web' = [web EXCEPT !.todo = @ \ {n}, !.row = @ \ {v}]
                             /\ vmap' = [vmap EXCEPT ![web.b][n] = v]
    BY <1>4 DEF ReservePrivate
  <2>2. web'.op = web.op /\ web'.b = web.b /\ v \in Vlans /\ n \notin Public /\ UNCHANGED <<pod, phase>>
    BY <1>4, <2>1 DEF ReservePrivate, TypeOK, Webs
  <2>3. \A c \in Bookings, m \in Networks : vmap'[c][m] = vmap[c][m] \/ (m = n /\ vmap'[c][m] = v)
    BY <2>1 DEF TypeOK
  <2>. QED BY <2>2, <2>3 DEF InvGiven
<1>5. ASSUME NEW h \in Hosts, AcquireHost(h) PROVE InvGiven'
  <2>1. /\ web' = [web EXCEPT !.next = @ + 1] /\ web \in Webs /\ UNCHANGED <<vmap, phase>>
        /\ web.op = "convert" /\ pod' = [pod EXCEPT ![h] = web.b]
    BY <1>5 DEF AcquireHost, TypeOK
  <2>2. web'.op = web.op /\ web'.b = web.b
    BY <2>1 DEF Webs
  <2>. QED BY <2>1, <2>2 DEF InvGiven, TypeOK
<1>6. ASSUME FailConvert \/ FinishUndo \/ \E R \in SUBSET Hosts : FinishConvert(R) PROVE InvGiven'
  <2>1. /\ UNCHANGED vmap /\ web.b \in Bookings
        /\ \E s \in {"failed", "live"} : phase' = [phase EXCEPT ![web.b] = s]
        /\ \A h \in Hosts : pod'[h] \in {pod[h], None}
    BY <1>6 DEF FailConvert, FinishUndo, FinishConvert, ReleasePod, TypeOK
  <2>. QED BY <2>1 DEF InvGiven, TypeOK
<1>7. ASSUME NEW n \in Networks, ReleasePublic(n) PROVE InvGiven'
  <2>1. /\ web \in Webs /\ web.b \in Bookings /\ UNCHANGED <<pod, vmap>>
        /\ \/ web' = [web EXCEPT !.todo = @ \ {n}] /\ UNCHANGED phase
           \/ phase' = [phase EXCEPT ![web.b] = "failed"]
    BY <1>7 DEF ReleasePublic, TypeOK
  <2>. QED BY <2>1 DEF InvGiven, TypeOK, Webs
<1>8. ASSUME FailAcquire \/ \E n \in Networks : ReleasePrivate(n) PROVE InvGiven'
  <2>1. web \in Webs /\ UNCHANGED <<vmap, phase, pod>> /\ web.op # "idle"
    BY <1>8 DEF FailAcquire, ReleasePrivate, TypeOK
  <2>2. web'.op = "undo" /\ web'.b = web.b
    BY <1>8, <2>1 DEF FailAcquire, ReleasePrivate, Webs
  <2>. QED BY <2>1, <2>2 DEF InvGiven
<1>9. ASSUME NEW b \in Bookings, DeleteBooking(b) \/ EndBooking(b) \/ FreePod(b) PROVE InvGiven'
  BY <1>1, <1>9 DEF DeleteBooking, EndBooking, FreePod, ReleasePod, TypeOK
<1>10. ASSUME NEW p \in Pollers, PollStep(p) PROVE InvGiven'
  BY <1>1, <1>10, RunBeside
<1>11. CASE UNCHANGED vars
  BY <1>1, <1>11 DEF vars
<1>. QED BY <1>2, <1>3, <1>4, <1>5, <1>6, <1>7, <1>8, <1>9, <1>10, <1>11 DEF Next, WebStep

(* The relations of whole pods.                                            *)
LEMMA WholeStep ==
  ASSUME TypeOK, InvConvert, InvGiven, InvWhole, [Next]_vars
  PROVE  InvWhole'
<1>. SUFFICES ASSUME broken' = {}, NEW b \in Bookings, phase'[b] \in Standing
              PROVE  rel'[b] = {h \in Hosts : pod'[h] = b}
  BY DEF InvWhole, PodOf
<1>1. CASE WebStep \/ \E c \in Bookings : EndBooking(c) \/ FreePod(c)
  <2>1. broken = {}
    BY <1>1, WebBeside
  <2>2. CASE Kept(b)
    BY <2>1, <2>2 DEF Kept, InvWhole, PodOf
  <2>3. ASSUME NEW R \in SUBSET Hosts, web.b = b, FinishConvert(R) PROVE rel'[b] = {h \in Hosts : pod'[h] = b}
    <3>1. R = PodOf(b) /\ pod' = pod /\ rel' = [rel EXCEPT ![b] = R]
      BY <2>3 DEF FinishConvert
    <3>. QED BY <3>1 DEF PodOf, TypeOK
  <2>. QED BY <1>1, <2>2, <2>3, PodsKept
<1>2. ASSUME NEW p \in Pollers, PollStep(p) PROVE rel'[b] = {h \in Hosts : pod'[h] = b}
  <2>1. broken = {} /\ UNCHANGED <<pod, rel>> /\ phase'[b] = phase[b]
    BY <1>2, RunBeside DEF Standing
  <2>. QED BY <2>1 DEF InvWhole, PodOf
<1>3. CASE UNCHANGED vars
  BY <1>3 DEF vars, histVars, InvWhole, PodOf
<1>. QED BY <1>1, <1>2, <1>3 DEF Next

(* The host a run is at belongs to the pod the run cleans.                 *)
LEMMA RunHost ==
  ASSUME TypeOK, InvWhole, InvRuns, broken = {}, NEW p \in Pollers, poll[p].cur # None
  PROVE  /\ poll[p].cur \in Bookings /\ phase[poll[p].cur] = "ended"
         /\ poll[p].host # None => poll[p].host \in Hosts /\ pod[poll[p].host] = poll[p].cur
<1>1. Steady(p) /\ poll[p].cur \in Bookings
  BY RunTypes DEF InvRuns
<1>2. rel[poll[p].cur] = PodOf(poll[p].cur)
  BY <1>1 DEF Steady, InvWhole, Standing
<1>. QED BY <1>1, <1>2 DEF Steady, PodOf

(* A run a step leaves alone stays steady.                                 *)
LEMMA SteadyKept ==
  ASSUME TypeOK, InvWhole, InvRuns, broken = {}, NEW p \in Pollers, poll[p].cur # None,
         poll'[p] = poll[p], phase'[poll[p].cur] = "ended",
         poll[p].cur \in cleaning', rel'[poll[p].cur] = rel[poll[p].cur],
         \A q \in Pollers : poll'[q].cur = poll[p].cur => poll[q].cur = poll[p].cur,
         \A h \in Hosts : pod[h] = poll[p].cur => config'[h] = config[h]
  PROVE  Steady(p)'
<1>1. Steady(p)
  BY DEF InvRuns
<1>2. poll[p].port # None => Carried(p)' = Carried(p)
  BY RunTypes, RunHost DEF Carried
<1>. QED BY <1>1, <1>2 DEF Steady

(* The steps of a run itself.                                              *)
LEMMA SteadyMove ==
  ASSUME TypeOK, InvWhole, InvRuns, broken' = {}, NEW p \in Pollers, PollStep(p), poll'[p].cur # None
  PROVE  Steady(p)'
<1>. USE NullAssumption DEF histVars
<1>0. /\ broken = {} /\ UNCHANGED <<rel, web>>
      /\ \A q \in Pollers : q # p => poll'[q] = poll[q]
      /\ poll[p] \in Polls /\ poll \in [Pollers -> Polls]
  BY RunBeside DEF TypeOK, PollsOK
<1>1. poll[p].cur # None => Steady(p)
  BY <1>0 DEF InvRuns
<1>2. ASSUME NEW b \in Bookings, PickCleanup(p, b) PROVE Steady(p)'
  <2>1. /\ poll'[p] = [IdlePoll EXCEPT !.cur = b, !.hosts = rel[b]]
        /\ b \notin cleaning /\ cleaning' = cleaning \cup {b} /\ phase' = phase /\ phase[b] = "ended"
    BY <1>0, <1>2 DEF PickCleanup
  <2>2. /\ poll'[p].cur = b /\ poll'[p].hosts = rel[b] /\ poll'[p].host = None /\ poll'[p].port = None
    BY <2>1 DEF IdlePoll
  <2>3. \A q \in Pollers : poll'[q].cur = b => q = p
    BY <1>0, <2>1 DEF InvRuns, Steady
  <2>. QED BY <1>0, <2>1, <2>2, <2>3 DEF Steady
<1>3. ASSUME poll'[p].cur = poll[p].cur, phase' = phase, cleaning' = cleaning, poll[p].cur # None,
             poll'[p].hosts \subseteq poll[p].hosts, poll'[p].host \in poll'[p].hosts \cup {None},
             poll'[p].host # None =>
               /\ ~poll'[p].loaded => poll'[p].acc = {}
               /\ poll'[p].port = None => poll'[p].acc \subseteq poll'[p].row,
             poll'[p].port # None => /\ Carried(p)' \cap Vlans \subseteq poll'[p].acc
                                     /\ poll'[p].acc \subseteq poll'[p].row \cup Carried(p)'
      PROVE  Steady(p)'
  <2>1. \A q \in Pollers : poll'[q].cur = poll[p].cur => q = p
    BY <1>0, <1>1, <1>3 DEF Steady
  <2>. QED BY <1>0, <1>1, <1>3, <2>1 DEF Steady
<1>4. ASSUME NEW h \in Hosts, PickHost(p, h) PROVE Steady(p)'
  <2>1. /\ poll[p].cur # None /\ poll[p].host = None /\ h \in poll[p].hosts
        /\ poll[p].port = None /\ phase' = phase /\ cleaning' = cleaning
        /\ poll'[p] = [poll[p] EXCEPT !.host = h, !.ports = Ports, !.acc = {}, !.row = {},
                                      !.loaded = FALSE]
    BY <1>0, <1>4, RunTypes DEF PickHost
  <2>2. /\ poll'[p].cur = poll[p].cur /\ poll'[p].hosts = poll[p].hosts /\ poll'[p].host = h
        /\ poll'[p].port = None /\ poll'[p].acc = {}
    BY <1>0, <2>1 DEF Polls
  <2>. QED BY <1>3, <2>1, <2>2
<1>5. ASSUME NEW x \in Ports, ReadPort(p, x) PROVE Steady(p)'
  <2>. DEFINE found == config[poll[p].host][x]
  <2>1. /\ poll[p].host # None /\ poll[p].port = None /\ poll[p].cur # None
        /\ phase' = phase /\ cleaning' = cleaning /\ config' = config
        /\ poll'[p] = [poll[p] EXCEPT !.port = x, !.acc = poll[p].acc \cup (found \cap Vlans),
                                      !.row = IF found # {} /\ ~poll[p].loaded THEN pool ELSE poll[p].row,
                                      !.loaded = (poll[p].loaded \/ found # {})]
    BY <1>0, <1>5, RunTypes DEF ReadPort
  <2>2. /\ poll'[p].cur = poll[p].cur /\ poll'[p].hosts = poll[p].hosts /\ poll'[p].host = poll[p].host
        /\ poll'[p].port = x /\ poll'[p].acc = poll[p].acc \cup (found \cap Vlans)
        /\ poll'[p].row = IF found # {} /\ ~poll[p].loaded THEN pool ELSE poll[p].row
        /\ poll'[p].loaded = (poll[p].loaded \/ found # {})
    BY <1>0, <2>1 DEF Polls
  <2>3. Carried(p)' = found
    BY <2>1, <2>2 DEF Carried
  <2>4. /\ ~poll[p].loaded => poll[p].acc = {}
        /\ poll[p].acc \subseteq poll[p].row
        /\ poll[p].host \in poll[p].hosts
    BY <1>1, <2>1 DEF Steady
  <2>. HIDE DEF found
  <2>5. poll'[p].acc \subseteq poll'[p].row \cup found
    BY <2>2, <2>4
  <2>6. ~poll'[p].loaded => poll'[p].acc = {}
    BY <2>2, <2>4
  <2>. QED BY <1>3, <2>1, <2>2, <2>3, <2>4, <2>5, <2>6
<1>6. CASE ClearPort(p)
  <2>. DEFINE new == poll[p].row \cup poll[p].acc
  <2>1. /\ poll[p].host # None /\ poll[p].port # None /\ poll[p].cur # None
        /\ phase' = phase /\ cleaning' = cleaning
        /\ poll'[p] = [poll[p] EXCEPT !.port = None, !.ports = poll[p].ports \ {poll[p].port},
                                      !.row = IF poll[p].acc # {} THEN new ELSE poll[p].row]
    BY <1>0, <1>6, RunTypes DEF ClearPort
  <2>2. /\ poll'[p].cur = poll[p].cur /\ poll'[p].hosts = poll[p].hosts /\ poll'[p].host = poll[p].host
        /\ poll'[p].port = None /\ poll'[p].acc = poll[p].acc /\ poll'[p].loaded = poll[p].loaded
        /\ poll'[p].row = IF poll[p].acc # {} THEN new ELSE poll[p].row
    BY <1>0, <2>1 DEF Polls
  <2>3. (~poll[p].loaded => poll[p].acc = {}) /\ poll[p].host \in poll[p].hosts
    BY <1>1, <2>1 DEF Steady
  <2>4. poll'[p].acc \subseteq poll'[p].row
    BY <2>2
  <2>. QED BY <1>3, <2>1, <2>2, <2>3, <2>4
<1>7. CASE FinishHost(p)
  <2>1. poll[p].cur # None /\ phase' = phase /\ cleaning' = cleaning /\ poll[p].port = None
    BY <1>7, RunTypes DEF FinishHost
  <2>2. poll'[p] = [poll[p] EXCEPT !.host = None, !.hosts = poll[p].hosts \ {poll[p].host}]
    BY <1>0, <1>7, IdlePollType DEF FinishHost, IdlePoll
  <2>3. /\ poll'[p].cur = poll[p].cur /\ poll'[p].hosts = poll[p].hosts \ {poll[p].host}
        /\ poll'[p].host = None /\ poll'[p].port = None
    BY <1>0, <2>1, <2>2 DEF Polls
  <2>. QED BY <1>3, <2>1, <2>3
<1>8. CASE FinishCleanup(p) \/ AbortPoll(p)
  BY <1>0, <1>8 DEF FinishCleanup, AbortPoll, IdlePoll
<1>. QED BY <1>2, <1>4, <1>5, <1>6, <1>7, <1>8 DEF PollStep

LEMMA RunsStep ==
  ASSUME TypeOK, InvConvert, InvGiven, InvWhole, InvRuns, [Next]_vars
  PROVE  InvRuns'
<1>. SUFFICES ASSUME broken' = {}, NEW p \in Pollers, poll'[p].cur # None PROVE Steady(p)'
  BY DEF InvRuns
<1>1. CASE WebStep \/ \E c \in Bookings : EndBooking(c) \/ FreePod(c)
  <2>1. broken = {} /\ UNCHANGED <<poll, cleaning>>
    BY <1>1, WebBeside
  <2>. DEFINE b == poll[p].cur
  <2>2. b \in Bookings /\ phase[b] = "ended" /\ b \in cleaning
    BY <2>1, RunTypes DEF InvRuns, Steady
  <2>3. phase'[b] = "ended"
    BY <1>1, <2>1, <2>2 DEF WebStep, StartConvert, DeleteBooking, ReservePublic, ReservePrivate,
       ReleasePublic, ReleasePrivate, AcquireHost, FailConvert, FailAcquire, FinishUndo,
       FinishConvert, EndBooking, FreePod, InvConvert, TypeOK
  <2>4. Kept(b)
    BY <1>1, <2>2, <2>3, PodsKept DEF Standing, InvConvert
  <2>. QED BY <2>1, <2>2, <2>3, <2>4, SteadyKept DEF Kept
<1>2. ASSUME NEW q \in Pollers, PollStep(q), q # p PROVE Steady(p)'
  <2>1. /\ broken = {} /\ UNCHANGED rel /\ poll'[p] = poll[p] /\ cleaning \subseteq cleaning'
        /\ \A r \in Pollers : r # q => poll'[r] = poll[r]
    BY <1>2, RunBeside
  <2>2. Steady(p) /\ poll[p].cur \in Bookings /\ poll[q].cur # poll[p].cur
    BY <1>2, <2>1, RunTypes DEF InvRuns, Steady
  <2>3. phase'[poll[p].cur] = "ended"
    BY <1>2, <2>2, RunBeside DEF Steady
  <2>4. poll'[q].cur # poll[p].cur
    <3>1. ASSUME NEW b \in Bookings, PickCleanup(q, b) PROVE b \notin cleaning /\ poll'[q].cur = b
      BY <3>1, <2>1 DEF PickCleanup, IdlePoll, TypeOK, PollsOK
    <3>2. CASE ~\E b \in Bookings : PickCleanup(q, b)
      <4>1. poll[q] \in Polls /\ poll \in [Pollers -> Polls]
        BY DEF TypeOK, PollsOK
      <4>2. poll'[q].cur \in {poll[q].cur, None}
        <5>1. CASE \E h \in Hosts : PickHost(q, h)
          BY <4>1, <5>1 DEF PickHost, Polls
        <5>2. CASE \E x \in Ports : ReadPort(q, x)
          BY <4>1, <5>2 DEF ReadPort, Polls
        <5>3. CASE ClearPort(q)
          BY <4>1, <5>3 DEF ClearPort, Polls
        <5>4. CASE FinishHost(q)
          BY <4>1, <5>4 DEF FinishHost, Polls, IdlePoll
        <5>5. CASE FinishCleanup(q) \/ AbortPoll(q)
          BY <4>1, <5>5 DEF FinishCleanup, AbortPoll, IdlePoll
        <5>. QED BY <1>2, <3>2, <5>1, <5>2, <5>3, <5>4, <5>5 DEF PollStep
      <4>. QED BY <2>1, <2>2, <4>2
    <3>. QED BY <2>2, <3>1, <3>2 DEF Steady
  <2>5. \A h \in Hosts : pod[h] = poll[p].cur => config'[h] = config[h]
    <3>1. poll[q].port # None => pod[poll[q].host] = poll[q].cur
      BY <2>1, RunTypes, RunHost
    <3>. QED BY <1>2, <2>2, <3>1, RunBeside
  <2>. QED BY <2>1, <2>2, <2>3, <2>4, <2>5, SteadyKept DEF Steady
<1>3. ASSUME PollStep(p) PROVE Steady(p)'
  BY <1>3, SteadyMove
<1>4. CASE UNCHANGED vars
  BY <1>4 DEF vars, histVars, InvRuns, Steady, Carried
<1>. QED BY <1>1, <1>2, <1>3, <1>4 DEF Next

(* What each step does to the conversion and its ids.                      *)
LEMMA ConvertMoves ==
  ASSUME TypeOK, InvConvert, [Next]_vars, web'.op = "convert"
  PROVE  \/ /\ web.op = "convert" /\ UNCHANGED <<web, vmap>> /\ ~\E h \in Hosts : AcquireHost(h)
         \/ \E b \in Bookings : /\ StartConvert(b) /\ phase[b] = "unused" /\ vmap' = vmap /\ web.op = "idle"
                                /\ web'.b = b /\ web'.todo = NetworksOf(b) /\ web'.next = 1
         \/ \E n \in Networks, v \in Ids :
              /\ web.op = "convert" /\ n \in web.todo /\ vmap' = [vmap EXCEPT ![web.b][n] = v]
              /\ web'.b = web.b /\ web'.todo = web.todo \ {n} /\ web'.next = web.next
              /\ UNCHANGED <<pod, config, broken>>
         \/ \E h \in Hosts :
              /\ AcquireHost(h) /\ web.op = "convert" /\ vmap' = vmap
              /\ web'.b = web.b /\ web'.todo = web.todo /\ web'.next = web.next + 1
<1>. USE DEF histVars
<1>0. web \in Webs
  BY DEF TypeOK
<1>1. ASSUME NEW b \in Bookings, StartConvert(b)
      PROVE  /\ phase[b] = "unused" /\ vmap' = vmap /\ web.op = "idle"
             /\ web'.b = b /\ web'.todo = NetworksOf(b) /\ web'.next = 1
  BY <1>1 DEF StartConvert
<1>2. ASSUME NEW n \in Networks, ReservePublic(n) \/ ReservePrivate(n)
      PROVE  \E v \in Ids :
                /\ web.op = "convert" /\ n \in web.todo /\ vmap' = [vmap EXCEPT ![web.b][n] = v]
                /\ web'.b = web.b /\ web'.todo = web.todo \ {n} /\ web'.next = web.next
                /\ UNCHANGED <<pod, config, broken>>
  <2>1. CASE ReservePublic(n)
    <3>1. web' = [web EXCEPT !.todo = @ \ {n}]
      BY <2>1 DEF ReservePublic
    <3>2. web'.b = web.b /\ web'.todo = web.todo \ {n} /\ web'.next = web.next
      BY <1>0, <3>1 DEF Webs
    <3>. QED BY <2>1, <3>2 DEF ReservePublic, Ids
  <2>2. CASE ReservePrivate(n)
    <3>1. PICK v \in web.row : /\ web' = [web EXCEPT !.todo = @ \ {n}, !.row = @ \ {v}]
                               /\ vmap' = [vmap EXCEPT ![web.b][n] = v]
      BY <2>2 DEF ReservePrivate
    <3>2. web'.b = web.b /\ web'.todo = web.todo \ {n} /\ web'.next = web.next /\ v \in Ids
      BY <1>0, <3>1 DEF Webs, Ids
    <3>. QED BY <2>2, <3>1, <3>2 DEF ReservePrivate
  <2>. QED BY <1>2, <2>1, <2>2
<1>3. ASSUME NEW h \in Hosts, AcquireHost(h)
      PROVE  /\ web.op = "convert" /\ vmap' = vmap
             /\ web'.b = web.b /\ web'.todo = web.todo /\ web'.next = web.next + 1
  <2>1. web' = [web EXCEPT !.next = @ + 1] /\ web.op = "convert" /\ vmap' = vmap
    BY <1>3 DEF AcquireHost
  <2>. QED BY <1>0, <2>1 DEF Webs
<1>4. CASE FailConvert \/ FinishUndo \/ \E R \in SUBSET Hosts : FinishConvert(R)
  BY <1>4 DEF FailConvert, FinishUndo, FinishConvert, IdleWeb
<1>5. CASE FailAcquire \/ \E n \in Networks : ReleasePrivate(n)
  <2>1. web'.op = "undo"
    BY <1>0, <1>5 DEF FailAcquire, ReleasePrivate, Webs
  <2>. QED BY <2>1
<1>6. CASE \E n \in Networks : ReleasePublic(n)
  <2>1. web'.op \in {"undo", "idle"}
    BY <1>0, <1>6 DEF ReleasePublic, IdleWeb, Webs
  <2>. QED BY <2>1
<1>7. ASSUME UNCHANGED <<web, vmap>>, ~\E h \in Hosts : AcquireHost(h)
      PROVE  web.op = "convert" /\ UNCHANGED <<web, vmap>> /\ ~\E h \in Hosts : AcquireHost(h)
  BY <1>7
<1>8. CASE \E b \in Bookings : DeleteBooking(b) \/ EndBooking(b) \/ FreePod(b)
  <2>1. UNCHANGED <<web, vmap>>
    BY <1>8 DEF DeleteBooking, EndBooking, FreePod
  <2>. QED BY <1>3, <1>7, <2>1
<1>9. CASE \E p \in Pollers : PollStep(p)
  BY <1>3, <1>7, <1>9, RunBeside
<1>10. CASE UNCHANGED vars
  BY <1>3, <1>7, <1>10 DEF vars
<1>. QED BY <1>1, <1>2, <1>3, <1>4, <1>5, <1>6, <1>8, <1>9, <1>10 DEF Next, WebStep

(* Every network the conversion needs is waiting or has its id.            *)
LEMMA NetsStep ==
  ASSUME TypeOK, InvConvert, InvNets, [Next]_vars
  PROVE  InvNets'
<1>. USE NullAssumption
<1>. SUFFICES ASSUME web'.op = "convert" PROVE InvNets'
  BY DEF InvNets
<1>1. CASE web.op = "convert" /\ UNCHANGED <<web, vmap>>
  BY <1>1 DEF InvNets
<1>2. ASSUME NEW b \in Bookings, phase[b] = "unused", vmap' = vmap, web.op = "idle",
             web'.b = b, web'.todo = NetworksOf(b), web'.next = 1
      PROVE  InvNets'
  <2>1. \A n \in Networks : vmap[b][n] = None
    BY <1>2 DEF InvConvert
  <2>2. Len(Template[b]) \in Nat
    BY TemplateAssumption
  <2>. QED BY <1>2, <2>1, <2>2 DEF InvNets
<1>3. ASSUME NEW n \in Networks, NEW v \in Ids, web.op = "convert", n \in web.todo,
             vmap' = [vmap EXCEPT ![web.b][n] = v], web'.b = web.b,
             web'.todo = web.todo \ {n}, web'.next = web.next
      PROVE  InvNets'
  <2>1. v # None /\ web.b \in Bookings
    BY <1>3, VlansAssumption DEF Ids, TypeOK
  <2>2. \A m \in Networks : vmap'[web.b][m] = IF m = n THEN v ELSE vmap[web.b][m]
    BY <1>3, <2>1 DEF TypeOK
  <2>. QED BY <1>3, <2>1, <2>2 DEF InvNets
<1>4. ASSUME NEW h \in Hosts, AcquireHost(h), vmap' = vmap, web'.b = web.b,
             web'.todo = web.todo, web'.next = web.next + 1
      PROVE  InvNets'
  <2>1. web.b \in Bookings /\ Len(Template[web.b]) \in Nat /\ web.op = "convert"
    BY <1>4, TemplateAssumption DEF AcquireHost, TypeOK
  <2>. QED BY <1>4, <2>1 DEF InvNets, AcquireHost
<1>. QED BY <1>1, <1>2, <1>3, <1>4, ConvertMoves

(* The hosts of the conversion are wired by the template.                  *)
LEMMA WiredStep ==
  ASSUME TypeOK, InvConvert, InvGiven, InvWhole, InvRuns, InvNets, InvWired, [Next]_vars
  PROVE  InvWired'
<1>. USE NullAssumption
<1>. SUFFICES ASSUME web'.op = "convert", broken' = {}
              PROVE  (\E host \in [1..(web.next - 1) -> Hosts] : Acquired(host))'
  BY DEF InvWired
<1>0. broken = {} /\ web'.b \in Bookings
  <2>1. TypeOK'
    BY TypeStep
  <2>2. broken \subseteq broken'
    BY WebBeside, RunBeside DEF Next, vars, histVars
  <2>. QED BY <2>1, <2>2 DEF TypeOK
<1>1. ASSUME web.op = "convert", web'.b = web.b, web'.next = web.next,
             \A n \in Networks : web.next > 1 => vmap'[web.b][n] = vmap[web.b][n],
             \A h \in Hosts : /\ pod'[h] = web.b <=> pod[h] = web.b
                              /\ pod[h] = web.b => config'[h] = config[h]
      PROVE  (\E host \in [1..(web.next - 1) -> Hosts] : Acquired(host))'
  <2>1. PICK host \in [1..(web.next - 1) -> Hosts] : Acquired(host)
    BY <1>0, <1>1 DEF InvWired
  <2>2. web.next \in Nat /\ web.b \in Bookings
    BY <1>1 DEF TypeOK, Webs
  <2>3. \A i \in 1..(web.next - 1) : /\ host[i] \in Hosts /\ pod[host[i]] = web.b
                                     /\ web.next > 1
    BY <2>1, <2>2 DEF Acquired, PodOf
  <2>4. \A i \in 1..(web.next - 1), x \in Ports : Wired(web.b, i, x)' = Wired(web.b, i, x)
    <3>1. \A i \in 1..(web.next - 1), x \in Ports : Template[web.b][i][x] \subseteq Networks
      <4>1. web.next - 1 <= Len(Template[web.b])
        BY <1>1, <2>2, TemplateAssumption DEF InvNets
      <4>. QED BY <2>2, <4>1, TemplateAssumption
    <3>. QED BY <1>1, <2>3, <3>1 DEF Wired
  <2>5. PodOf(web.b)' = PodOf(web.b)
    BY <1>1 DEF PodOf
  <2>6. \A i \in 1..(web.next - 1), x \in Ports : config'[host[i]][x] = Wired(web.b, i, x)'
    BY <1>1, <2>1, <2>3, <2>4 DEF Acquired
  <2>7. Acquired(host)'
    BY <1>1, <2>1, <2>5, <2>6 DEF Acquired
  <2>. QED BY <1>1, <2>1, <2>7
<1>2. ASSUME UNCHANGED <<web, vmap>>, web.op = "convert", ~\E h \in Hosts : AcquireHost(h)
      PROVE  (\E host \in [1..(web.next - 1) -> Hosts] : Acquired(host))'
  <2>1. phase[web.b] = "unused" /\ web.b \in Bookings
    BY <1>2 DEF InvConvert, TypeOK
  <2>2. CASE \E p \in Pollers : PollStep(p)
    <3>1. PICK p \in Pollers : PollStep(p)
      BY <2>2
    <3>2. poll[p].port # None => pod[poll[p].host] # web.b
      BY <1>0, <2>1, RunTypes, RunHost
    <3>. QED BY <1>1, <1>2, <3>1, <3>2, RunBeside
  <2>3. CASE \E b \in Bookings : EndBooking(b) \/ FreePod(b)
    <3>1. PICK b \in Bookings : EndBooking(b) \/ FreePod(b)
      BY <2>3
    <3>2. b # web.b /\ config' = config
      BY <2>1, <3>1 DEF EndBooking, FreePod
    <3>3. pod' = pod \/ ReleasePod(b)
      BY <3>1 DEF EndBooking, FreePod
    <3>4. \A h \in Hosts : pod'[h] = web.b <=> pod[h] = web.b
      BY <2>1, <3>2, <3>3 DEF ReleasePod, TypeOK
    <3>. QED BY <1>1, <1>2, <3>2, <3>4
  <2>4. CASE WebStep \/ UNCHANGED vars
    <3>1. UNCHANGED <<pod, config>>
      BY <1>2, <2>4 DEF WebStep, StartConvert, DeleteBooking, ReservePublic, ReservePrivate,
         ReleasePublic, ReleasePrivate, FailConvert, FailAcquire, FinishUndo, FinishConvert, IdleWeb,
         vars, histVars
    <3>. QED BY <1>1, <1>2, <3>1
  <2>. QED BY <2>2, <2>3, <2>4 DEF Next
<1>3. ASSUME NEW b \in Bookings, StartConvert(b), phase[b] = "unused", web'.b = b, web'.next = 1,
             web.op = "idle"
      PROVE  (\E host \in [1..(web.next - 1) -> Hosts] : Acquired(host))'
  <2>1. PodOf(b)' = {}
    BY <1>3 DEF StartConvert, InvGiven, PodOf
  <2>. DEFINE none == [i \in 1..0 |-> CHOOSE h \in Hosts : TRUE]
  <2>2. none \in [1..0 -> Hosts] /\ 1..0 = {}
    OBVIOUS
  <2>3. web'.next - 1 = 0
    BY <1>3
  <2>4. Acquired(none)'
    BY <1>3, <2>1, <2>2, <2>3 DEF Acquired
  <2>. QED BY <2>2, <2>3, <2>4
<1>4. ASSUME NEW n \in Networks, NEW v \in Ids, web.op = "convert", n \in web.todo,
             web'.b = web.b, web'.next = web.next, UNCHANGED <<pod, config>>
      PROVE  (\E host \in [1..(web.next - 1) -> Hosts] : Acquired(host))'
  <2>1. ~(web.next > 1)
    BY <1>4 DEF InvNets
  <2>. QED BY <1>1, <1>4, <2>1
<1>5. ASSUME NEW h \in Hosts, AcquireHost(h), vmap' = vmap, web'.b = web.b, web'.next = web.next + 1
      PROVE  (\E host \in [1..(web.next - 1) -> Hosts] : Acquired(host))'
  <2>1. /\ web.op = "convert" /\ pod[h] = None /\ pod' = [pod EXCEPT ![h] = web.b]
        /\ config' = [config EXCEPT ![h] = [x \in Ports |-> Wired(web.b, web.next, x)]]
        /\ web.next \in Nat \ {0} /\ web.b \in Bookings
    BY <1>5 DEF AcquireHost, Wired, InvNets, TypeOK, Webs
  <2>2. PICK host \in [1..(web.next - 1) -> Hosts] : Acquired(host)
    BY <1>0, <2>1 DEF InvWired
  <2>3. PICK more \in [1..web.next -> Hosts] :
          more[web.next] = h /\ \A i \in 1..(web.next - 1) : more[i] = host[i] /\ i # web.next
    <3>. DEFINE more == [i \in 1..web.next |-> IF i = web.next THEN h ELSE host[i]]
    <3>1. more \in [1..web.next -> Hosts]
      BY <2>1
    <3>2. more[web.next] = h /\ \A i \in 1..(web.next - 1) : more[i] = host[i] /\ i # web.next
      BY <2>1
    <3>. HIDE DEF more
    <3>. QED BY <3>1, <3>2
  <2>a. /\ web'.next - 1 = web.next
        /\ 1..web.next = (1..(web.next - 1)) \cup {web.next}
    BY <1>5, <2>1
  <2>4. PodOf(web.b) = {host[i] : i \in 1..(web.next - 1)}
    BY <2>2 DEF Acquired
  <2>5. PodOf(web.b)' = PodOf(web.b) \cup {h}
    BY <1>5, <2>1 DEF PodOf, TypeOK
  <2>6. PodOf(web.b)' = {more[i] : i \in 1..web.next}
    BY <2>3, <2>a, <2>4, <2>5
  <2>7. \A i \in 1..web.next, x \in Ports : Wired(web.b, i, x)' = Wired(web.b, i, x)
    BY <1>5 DEF Wired
  <2>8. ASSUME NEW i \in 1..web.next, NEW x \in Ports PROVE config'[more[i]][x] = Wired(web.b, i, x)
    <3>1. CASE i = web.next
      BY <2>1, <2>3, <3>1 DEF TypeOK
    <3>2. CASE i # web.next
      <4>1. i \in 1..(web.next - 1) /\ more[i] = host[i] /\ host[i] \in PodOf(web.b)
        BY <2>3, <2>a, <2>4, <3>2
      <4>2. host[i] # h /\ host[i] \in Hosts
        BY <2>1, <4>1 DEF PodOf
      <4>. QED BY <2>1, <2>2, <4>1, <4>2 DEF Acquired, TypeOK
    <3>. QED BY <3>1, <3>2
  <2>9. Acquired(more)'
    BY <1>5, <2>3, <2>a, <2>6, <2>7, <2>8 DEF Acquired
  <2>. QED BY <2>3, <2>a, <2>9
<1>. QED BY <1>2, <1>3, <1>4, <1>5, ConvertMoves

(* Ids are given once to a network and not taken away.                     *)
LEMMA HeldGrows ==
  ASSUME TypeOK, InvConvert, InvNets, [Next]_vars, NEW b \in Bookings
  PROVE  Held(b) \subseteq Held(b)'
<1>1. CASE UNCHANGED vmap
  BY <1>1 DEF Held
<1>2. ASSUME NEW n \in Networks, ReservePublic(n) \/ ReservePrivate(n)
      PROVE  Held(b) \subseteq Held(b)'
  <2>1. web.b \in Bookings /\ n \in web.todo /\ web.op = "convert"
    BY <1>2 DEF ReservePublic, ReservePrivate, TypeOK
  <2>2. vmap[web.b][n] = None
    BY <2>1 DEF InvNets
  <2>3. PICK v : vmap' = [vmap EXCEPT ![web.b][n] = v]
    BY <1>2 DEF ReservePublic, ReservePrivate
  <2>4. \A m \in Networks : vmap[b][m] # None => vmap'[b][m] = vmap[b][m]
    BY <2>1, <2>2, <2>3 DEF TypeOK
  <2>. QED BY <2>4 DEF Held
<1>3. UNCHANGED vmap \/ \E n \in Networks : ReservePublic(n) \/ ReservePrivate(n)
  BY RunBeside DEF Next, WebStep, StartConvert, DeleteBooking, ReleasePublic, ReleasePrivate,
     AcquireHost, FailConvert, FailAcquire, FinishUndo, FinishConvert, EndBooking, FreePod, vars, histVars
<1>. QED BY <1>1, <1>2, <1>3

(* The pool only grows but for the id a private network is given.          *)
LEMMA PoolMoves ==
  ASSUME TypeOK, [Next]_vars, ~lost'
  PROVE  /\ ~lost
         /\ \/ pool' = pool
            \/ \E n \in Networks : ReservePrivate(n) /\ web.row = pool
            \/ \E n \in Networks : ReleasePrivate(n) /\ web.row = pool
            \/ \E p \in Pollers : /\ ClearPort(p) /\ poll[p].acc # {}
                                  /\ pool' = pool \cup poll[p].acc
<1>1. ASSUME NEW n \in Networks, ReservePrivate(n) \/ ReleasePrivate(n)
      PROVE  ~lost /\ web.row = pool
  BY <1>1 DEF ReservePrivate, ReleasePrivate, SavePool, TypeOK
<1>2. ASSUME NEW p \in Pollers, ClearPort(p)
      PROVE  /\ ~lost
             /\ pool' = pool \/ (poll[p].acc # {} /\ pool' = pool \cup poll[p].acc)
  BY <1>2 DEF ClearPort, SavePool, TypeOK
<1>3. \/ UNCHANGED <<pool, lost>>
      \/ \E n \in Networks : ReservePrivate(n) \/ ReleasePrivate(n)
      \/ \E p \in Pollers : ClearPort(p)
  BY DEF Next, WebStep, PollStep, StartConvert, DeleteBooking, ReservePublic, ReleasePublic,
     AcquireHost, FailConvert, FailAcquire, FinishUndo, FinishConvert, EndBooking, FreePod,
     PickCleanup, PickHost, ReadPort, FinishHost, FinishCleanup, AbortPoll, vars, histVars
<1>. QED BY <1>1, <1>2, <1>3

(* What a whole conversion has wired.                                      *)
LEMMA AllWired ==
  ASSUME TypeOK, InvConvert, InvGiven, InvNets, InvWired, broken = {}, web.op = "convert", web.todo = {},
         web.next > Len(Template[web.b])
  PROVE  \E host \in [1..Len(Template[web.b]) -> Hosts] :
            /\ PodOf(web.b) = {host[i] : i \in 1..Len(Template[web.b])}
            /\ \A i \in 1..Len(Template[web.b]), x \in Ports :
                 config[host[i]][x] = {vmap[web.b][n] : n \in Template[web.b][i][x]}
<1>1. web.next - 1 = Len(Template[web.b]) /\ web.b \in Bookings
  <2>1. web.next \in Nat /\ web.b \in Bookings
    BY DEF TypeOK, Webs
  <2>2. Len(Template[web.b]) \in Nat
    BY <2>1, TemplateAssumption
  <2>. QED BY <2>1, <2>2 DEF InvNets
<1>2. PICK host \in [1..Len(Template[web.b]) -> Hosts] :
        /\ PodOf(web.b) = {host[i] : i \in 1..Len(Template[web.b])}
        /\ \A i \in 1..Len(Template[web.b]), x \in Ports : config[host[i]][x] = Wired(web.b, i, x)
  BY <1>1 DEF InvWired, Acquired
<1>3. ASSUME NEW i \in 1..Len(Template[web.b]), NEW x \in Ports
      PROVE  Wired(web.b, i, x) = {vmap[web.b][n] : n \in Template[web.b][i][x]}
  <2>1. Template[web.b] \in Seq([Ports -> SUBSET Networks])
    BY <1>1, TemplateAssumption
  <2>2. Template[web.b][i][x] \subseteq Networks /\ Template[web.b][i][x] \subseteq NetworksOf(web.b)
    BY <2>1 DEF NetworksOf
  <2>3. \A n \in Template[web.b][i][x] : vmap[web.b][n] \in Ids
    BY <1>1, <2>2 DEF InvNets, InvGiven, Ids
  <2>. QED BY <2>3 DEF Wired
<1>. QED BY <1>2, <1>3

(* A finished conversion has every id it was given on a port.              *)
LEMMA OwnedOnPort ==
  ASSUME TypeOK, InvConvert, InvGiven, InvNets, InvWired, broken = {}, web.op = "convert", web.todo = {},
         web.next > Len(Template[web.b]), NEW v \in Held(web.b)
  PROVE  \E h \in PodOf(web.b), x \in Ports : v \in config[h][x]
<1>1. PICK n \in Networks : v = vmap[web.b][n] /\ v # None
  BY DEF Held
<1>2. n \in NetworksOf(web.b)
  BY <1>1 DEF InvNets
<1>3. PICK i \in 1..Len(Template[web.b]), x \in Ports : n \in Template[web.b][i][x]
  BY <1>2 DEF NetworksOf
<1>4. PICK host \in [1..Len(Template[web.b]) -> Hosts] :
        /\ PodOf(web.b) = {host[j] : j \in 1..Len(Template[web.b])}
        /\ \A j \in 1..Len(Template[web.b]), y \in Ports :
             config[host[j]][y] = {vmap[web.b][m] : m \in Template[web.b][j][y]}
  BY AllWired
<1>5. host[i] \in PodOf(web.b)
  BY <1>3, <1>4
<1>6. v \in config[host[i]][x]
  <2>1. config[host[i]][x] = {vmap[web.b][m] : m \in Template[web.b][i][x]}
    BY <1>3, <1>4
  <2>. QED BY <1>1, <1>3, <2>1
<1>. QED BY <1>5, <1>6

(* No private id is lost.                                                  *)
LEMMA OwnedStep ==
  ASSUME IInv, InvGiven, InvWhole, InvRuns, InvNets, InvWired, InvOwned, [Next]_vars
  PROVE  InvOwned'
<1>. USE NullAssumption
<1>. SUFFICES ASSUME ~lost', broken' = {}, NEW v \in Vlans \ pool'
              PROVE  \E b \in Bookings : Owns(b, v)'
  BY DEF InvOwned
<1>0. /\ TypeOK /\ InvConvert /\ InvCleanup /\ ~lost /\ broken = {} /\ v \notin pool'
      /\ phase' \in [Bookings -> Phases]
  <2>1. TypeOK /\ InvConvert /\ InvCleanup
    BY DEF IInv
  <2>2. broken \subseteq broken'
    BY <2>1, WebBeside, RunBeside DEF Next, vars, histVars
  <2>3. phase' \in [Bookings -> Phases]
    BY <2>1, TypeStep DEF TypeOK
  <2>. QED BY <2>1, <2>2, <2>3, PoolMoves
<1>1. ASSUME NEW b \in Bookings, Owns(b, v) PROVE Owns(b, v)'
  <2>1. v \in Held(b)'
    BY <1>0, <1>1, HeldGrows DEF Owns
  <2>2. CASE UNCHANGED vars
    BY <1>1, <2>2 DEF vars, Owns, Held, PodOf
  <2>3. CASE WebStep \/ \E c \in Bookings : EndBooking(c) \/ FreePod(c)
    <3>1. CASE phase'[b] \in {"unused", "failed", "deleted"}
      BY <2>1, <3>1 DEF Owns
    <3>2. phase'[b] \in Standing \/ phase'[b] \in {"unused", "failed", "deleted"}
      <4>1. phase[b] \notin {"cleaned", "freed"}
        BY <1>1 DEF Owns, Standing
      <4>2. phase'[b] \notin {"cleaned", "freed"}
        BY <1>0, <2>3, <4>1, ZenonT(60) DEF WebStep, StartConvert, DeleteBooking, ReservePublic, ReservePrivate,
           ReleasePublic, ReleasePrivate, AcquireHost, FailConvert, FailAcquire, FinishUndo,
           FinishConvert, EndBooking, FreePod, TypeOK
      <4>. QED BY <1>0, <4>2 DEF Phases, Standing
    <3>3. ASSUME phase'[b] \in Standing, Kept(b) PROVE Owns(b, v)'
      <4>1. PICK h \in PodOf(b), x \in Ports : v \in config[h][x]
        BY <1>1, <3>3 DEF Owns, Kept, Standing
      <4>2. h \in Hosts /\ pod'[h] = b /\ config'[h] = config[h]
        BY <3>3, <4>1 DEF PodOf, Kept
      <4>3. h \in PodOf(b)' /\ v \in config'[h][x]
        BY <4>1, <4>2 DEF PodOf
      <4>. QED BY <2>1, <3>3, <4>3 DEF Owns
    <3>4. ASSUME phase'[b] \in Standing, web.op = "convert", web.b = b, NEW R \in SUBSET Hosts, FinishConvert(R)
          PROVE  Owns(b, v)'
      <4>1. web.todo = {} /\ web.next > Len(Template[web.b]) /\ UNCHANGED <<pod, config>>
        BY <3>4 DEF FinishConvert
      <4>2. PICK h \in PodOf(b), x \in Ports : v \in config[h][x]
        BY <1>0, <1>1, <3>4, <4>1, OwnedOnPort DEF Owns
      <4>3. h \in PodOf(b)' /\ v \in config'[h][x]
        BY <4>1, <4>2 DEF PodOf
      <4>. QED BY <2>1, <3>4, <4>3 DEF Owns
    <3>. QED BY <1>0, <2>3, <3>1, <3>2, <3>3, <3>4, PodsKept
  <2>4. ASSUME NEW p \in Pollers, PollStep(p) PROVE Owns(b, v)'
    <3>1. UNCHANGED pod /\ config' \in [Hosts -> [Ports -> SUBSET Ids]]
      BY <1>0, <2>4, RunBeside, TypeStep DEF TypeOK
    <3>2. CASE phase[b] \in {"unused", "failed", "deleted"}
      BY <1>0, <2>1, <2>4, <3>2, RunBeside DEF Owns
    <3>3. CASE phase[b] \in Standing
      <4>1. PICK h \in PodOf(b), x \in Ports : v \in config[h][x]
        BY <1>1, <3>3 DEF Owns, Standing
      <4>2. h \in Hosts /\ pod[h] = b /\ pod'[h] = b
        BY <3>1, <4>1 DEF PodOf
      <4>3. phase'[b] \in Standing
        <5>1. CASE FinishCleanup(p)
          <6>1. poll[p].cur # None /\ poll[p].host = None /\ poll[p].hosts = {}
                /\ (b # poll[p].cur => phase'[b] = phase[b])
            BY <1>0, <5>1 DEF FinishCleanup, TypeOK
          <6>2. poll[p].cur # b
            <7>1. h \in rel[b]
              BY <1>0, <3>3, <4>1 DEF InvWhole
            <7>. QED BY <1>0, <4>1, <4>2, <6>1, <7>1 DEF InvCleanup
          <6>. QED BY <3>3, <6>1, <6>2
        <5>2. CASE ~FinishCleanup(p)
          <6>1. phase' = phase
            BY <2>4, <5>2 DEF PollStep, PickCleanup, PickHost, ReadPort, ClearPort, FinishHost, AbortPoll
          <6>. QED BY <3>3, <6>1
        <5>. QED BY <5>1, <5>2
      <4>4. v \in config'[h][x]
        <5>1. CASE ClearPort(p)
          <6>1. /\ config' = [config EXCEPT ![poll[p].host][poll[p].port] = {}]
                /\ poll[p].port # None /\ poll[p].cur # None
            BY <1>0, <5>1, RunTypes DEF ClearPort
          <6>2. v \notin poll[p].acc
            BY <1>0, <5>1 DEF ClearPort, SavePool
          <6>3. v \notin Carried(p)
            BY <1>0, <6>1, <6>2 DEF InvRuns, Steady
          <6>4. h # poll[p].host \/ x # poll[p].port
            BY <4>1, <6>3 DEF Carried
          <6>. QED BY <1>0, <4>1, <4>2, <6>1, <6>4 DEF TypeOK
        <5>2. CASE ~ClearPort(p)
          <6>1. config' = config
            BY <2>4, <5>2 DEF PollStep, PickCleanup, PickHost, ReadPort, FinishHost, FinishCleanup, AbortPoll
          <6>. QED BY <4>1, <6>1
        <5>. QED BY <5>1, <5>2
      <4>5. h \in PodOf(b)'
        BY <4>2 DEF PodOf
      <4>. QED BY <2>1, <4>3, <4>4, <4>5 DEF Owns
    <3>. QED BY <1>1, <3>2, <3>3 DEF Owns
  <2>. QED BY <2>2, <2>3, <2>4 DEF Next
<1>2. CASE v \notin pool
  BY <1>0, <1>1, <1>2 DEF InvOwned
<1>3. CASE v \in pool
  <2>1. PICK n \in Networks : ReservePrivate(n) /\ web.row = pool
    <3>1. ~(pool' = pool) /\ ~(\E p \in Pollers : pool' = pool \cup poll[p].acc)
      BY <1>0, <1>3
    <3>2. ASSUME NEW n \in Networks, ReleasePrivate(n), web.row = pool PROVE FALSE
      <4>1. web' = [web EXCEPT !.todo = @ \ {n}, !.row = @ \cup ({vmap[web.b][n]} \cap Vlans)]
            /\ web \in Webs /\ pool' = web'.row
        BY <1>0, <3>2 DEF ReleasePrivate, SavePool, TypeOK
      <4>2. pool \subseteq pool'
        BY <3>2, <4>1 DEF Webs
      <4>. QED BY <1>0, <1>3, <4>2
    <3>. QED BY <1>0, <3>1, <3>2, PoolMoves
  <2>2. PICK u \in web.row : pool' = web.row \ {u} /\ vmap' = [vmap EXCEPT ![web.b][n] = u]
    BY <2>1 DEF ReservePrivate, SavePool
  <2>3. v = u /\ v # None /\ web.b \in Bookings /\ phase'[web.b] = "unused"
    <3>1. web.op = "convert" /\ phase' = phase
      BY <2>1 DEF ReservePrivate
    <3>. QED BY <1>0, <1>3, <2>1, <2>2, <3>1, VlansAssumption DEF TypeOK, InvConvert
  <2>5. PICK b \in Bookings : b = web.b
    BY <2>3
  <2>6. v \in Held(b)' /\ phase'[b] = "unused"
    <3>1. vmap'[b][n] = v
      BY <1>0, <2>2, <2>3, <2>5 DEF TypeOK
    <3>. QED BY <2>3, <2>5, <3>1 DEF Held
  <2>7. Owns(b, v)'
    BY <2>6 DEF Owns
  <2>. QED BY <2>7
<1>. QED BY <1>2, <1>3

----------------------------------------------------------------------------
(* Ids in one place each: what may move from one place to another. *)

LEMMA ApartShrinks ==
  ASSUME InvApart, Orderly, Free' \subseteq Free, Reserved' \subseteq Reserved,
         \A h \in Hosts, x \in Ports : Keeps(h, x)' \subseteq Keeps(h, x)
  PROVE  InvApart'
BY DEF InvApart

(* Available ids are reserved.                                             *)
LEMMA ApartReserve ==
  ASSUME InvApart, Orderly, NEW M \in SUBSET Free,
         Free' \subseteq Free \ M, Reserved' \subseteq Reserved \cup M,
         \A h \in Hosts, x \in Ports : Keeps(h, x)' \subseteq Keeps(h, x)
  PROVE  InvApart'
BY DEF InvApart

(* Reserved ids become available.                                          *)
LEMMA ApartRelease ==
  ASSUME InvApart, Orderly, NEW M \in SUBSET Reserved,
         Free' \subseteq Free \cup M, Reserved' \subseteq Reserved \ M,
         \A h \in Hosts, x \in Ports : Keeps(h, x)' \subseteq Keeps(h, x)
  PROVE  InvApart'
BY DEF InvApart

(* The ids of a port become available.                                     *)
LEMMA ApartClean ==
  ASSUME InvApart, Orderly, NEW g \in Hosts, NEW y \in Ports, NEW M \in SUBSET Keeps(g, y),
         Free' \subseteq Free \cup M, Reserved' \subseteq Reserved, Keeps(g, y)' \cap M = {},
         \A h \in Hosts, x \in Ports : Keeps(h, x)' \subseteq Keeps(h, x)
  PROVE  InvApart'
<1>1. \A h \in Hosts, x \in Ports : Keeps(h, x)' \cap M = {}
  <2>. SUFFICES ASSUME NEW h \in Hosts, NEW x \in Ports PROVE Keeps(h, x)' \cap M = {}
    OBVIOUS
  <2>1. CASE h = g /\ x = y
    BY <2>1
  <2>2. CASE h # g \/ x # y
    BY <2>2 DEF InvApart
  <2>. QED BY <2>1, <2>2
<1>2. Reserved' \cap M = {}
  BY DEF InvApart
<1>. QED BY <1>1, <1>2 DEF InvApart

LEMMA WatchedShrinks ==
  ASSUME TypeOK, [Next]_vars
  PROVE  /\ Watched' \subseteq Watched /\ PublicVlans \subseteq Watched /\ PublicVlans \subseteq Watched'
         /\ Watched \subseteq Ids
         /\ ~lost' => ~lost /\ Watched = Ids /\ Watched' = Ids
         /\ lost' => Watched' = PublicVlans
         /\ None \notin Watched
<1>1. ~lost' => ~lost
  BY PoolMoves
<1>. QED BY <1>1, VlansAssumption, NullAssumption DEF Watched, Ids

(* The ports of a pod keep no more ids after a step of the web worker, but *)
(* for those of the pod it finishes.                                       *)
LEMMA KeepsWeb ==
  ASSUME TypeOK, InvConvert, InvGiven, [Next]_vars,
         WebStep \/ \E c \in Bookings : EndBooking(c) \/ FreePod(c),
         NEW h \in Hosts, NEW x \in Ports,
         pod[h] = web.b /\ web.op = "convert" => ~\E R \in SUBSET Hosts : FinishConvert(R)
  PROVE  Keeps(h, x)' \subseteq Keeps(h, x)
<1>. SUFFICES ASSUME NEW v \in Keeps(h, x)' PROVE v \in Keeps(h, x)
  OBVIOUS
<1>. DEFINE b == pod'[h]
<1>1. /\ v \in Watched' /\ v \in config'[h][x] /\ b # None /\ phase'[b] \in Standing
      /\ v \in Vlans \/ Unread(h, x)'
  BY DEF Keeps
<1>2. b \in Bookings
  <2>1. pod' \in [Hosts -> Bookings \cup {None}]
    BY TypeStep DEF TypeOK
  <2>. QED BY <1>1, <2>1
<1>3. Kept(b)
  <2>1. ASSUME web.op = "convert", web.b = b, NEW R \in SUBSET Hosts, FinishConvert(R) PROVE FALSE
    <3>1. pod' = pod
      BY <2>1 DEF FinishConvert
    <3>. QED BY <2>1, <3>1
  <2>. QED BY <1>1, <1>2, <2>1, PodsKept
<1>4. /\ pod[h] = b /\ config'[h] = config[h] /\ phase[b] \in Standing
      /\ phase'[b] = phase[b] \/ phase[b] = "live"
  BY <1>3 DEF Kept
<1>5. UNCHANGED <<poll, cleaning>>
  BY WebBeside
<1>6. Unread(h, x)' => Unread(h, x)
  BY <1>4, <1>5 DEF Unread
<1>. QED BY <1>1, <1>4, <1>6, WatchedShrinks DEF Keeps

(* A step of a run leaves no port with more ids, if it leaves no port      *)
(* unread that was read.                                                   *)
LEMMA KeepsRun ==
  ASSUME TypeOK, [Next]_vars, NEW p \in Pollers, PollStep(p), NEW h \in Hosts, NEW x \in Ports,
         pod[h] # None /\ phase[pod[h]] \in Standing /\ config'[h][x] # {} =>
           (Unread(h, x)' => Unread(h, x))
  PROVE  Keeps(h, x)' \subseteq Keeps(h, x)
<1>. SUFFICES ASSUME NEW v \in Keeps(h, x)' PROVE v \in Keeps(h, x)
  OBVIOUS
<1>1. /\ v \in Watched' /\ v \in config'[h][x] /\ pod'[h] # None /\ phase'[pod'[h]] \in Standing
      /\ v \in Vlans \/ Unread(h, x)'
  BY DEF Keeps
<1>2. pod' = pod /\ config'[h][x] \subseteq config[h][x]
  BY RunBeside
<1>3. pod[h] \in Bookings
  BY <1>1, <1>2 DEF TypeOK
<1>4. phase[pod[h]] \in Standing
  BY <1>1, <1>2, <1>3, RunBeside DEF Standing
<1>. QED BY <1>1, <1>2, <1>4, WatchedShrinks DEF Keeps

(* The conversion gives an id to one network.                              *)
LEMMA DistinctStep ==
  ASSUME IInv, InvGiven, InvNets, InvApart, InvDistinct, [Next]_vars
  PROVE  InvDistinct'
<1>. USE NullAssumption
<1>. SUFFICES ASSUME Orderly', web'.op # "idle", NEW m \in Networks, NEW n \in Networks, m # n,
                     vmap'[web'.b][m] # None
              PROVE  vmap'[web'.b][m] # vmap'[web'.b][n]
  BY DEF InvDistinct
<1>0. TypeOK /\ InvConvert /\ NetworksApart /\ NetworksApart' /\ Orderly
  <2>1. TypeOK /\ InvConvert /\ NetworksApart
    BY DEF IInv
  <2>2. broken \subseteq broken'
    BY <2>1, WebBeside, RunBeside DEF Next, vars, histVars
  <2>. QED BY <2>1, <2>2, ConvertStep DEF Orderly
<1>1. CASE web.op # "idle" /\ web'.b = web.b /\ vmap' = vmap
  BY <1>0, <1>1 DEF InvDistinct
<1>2. ASSUME NEW b \in Bookings, web'.b = b, web.op = "idle", phase[b] = "unused", vmap' = vmap
      PROVE  FALSE
  BY <1>0, <1>2 DEF InvConvert
<1>3. ASSUME NEW k \in Networks, NEW v \in Ids, web.op = "convert", web'.b = web.b, k \in web.todo,
             vmap' = [vmap EXCEPT ![web.b][k] = v], ReservePublic(k) \/ ReservePrivate(k)
      PROVE  vmap'[web'.b][m] # vmap'[web'.b][n]
  <2>. DEFINE b == web.b
  <2>1. b \in Bookings /\ \A i \in Networks : vmap'[b][i] = IF i = k THEN v ELSE vmap[b][i]
    BY <1>0, <1>3 DEF TypeOK
  <2>2. CASE m # k /\ n # k
    BY <1>0, <1>3, <2>1, <2>2 DEF InvDistinct
  <2>3. CASE ReservePublic(k)
    <3>1. v \in PublicVlans \ inUse
      <4>1. PICK u \in PublicVlans \ inUse : vmap' = [vmap EXCEPT ![b][k] = u]
        BY <2>3 DEF ReservePublic
      <4>2. vmap'[b][k] = u
        BY <1>0, <2>1, <4>1 DEF TypeOK
      <4>. QED BY <2>1, <4>2
    <3>2. v \in Free
      BY <1>0, <3>1, WatchedShrinks DEF Free
    <3>3. ASSUME NEW i \in Networks PROVE vmap[b][i] # v
      BY <1>0, <1>3, <3>2, <3>3 DEF InvApart, Reserved, Reserving, Free
    <3>. QED BY <1>3, <2>1, <2>2, <3>3
  <2>4. CASE ReservePrivate(k)
    <3>1. k \notin Public /\ v \in Vlans
      <4>1. k \notin Public
        BY <2>4 DEF ReservePrivate
      <4>2. PICK u \in web.row : vmap' = [vmap EXCEPT ![b][k] = u]
        BY <2>4 DEF ReservePrivate
      <4>3. vmap'[b][k] = u /\ u \in Vlans
        BY <1>0, <2>1, <4>2 DEF TypeOK, Webs
      <4>. QED BY <2>1, <4>1, <4>3
    <3>2. ASSUME NEW i \in Networks, i # k PROVE vmap'[b][i] # v
      <4>1. CASE i \in Public
        <5>1. vmap[b][i] \in PublicVlans \cup {None}
          BY <2>1, <4>1 DEF InvGiven
        <5>. QED BY <2>1, <3>1, <3>2, <5>1, VlansAssumption
      <4>2. CASE i \notin Public
        BY <1>0, <2>1, <3>1, <3>2, <4>2, VlansAssumption DEF NetworksApart
      <4>. QED BY <4>1, <4>2
    <3>. QED BY <1>3, <2>1, <2>2, <3>2
  <2>. QED BY <1>3, <2>3, <2>4
<1>4. \/ web.op # "idle" /\ web'.b = web.b /\ vmap' = vmap
      \/ \E b \in Bookings : web'.b = b /\ web.op = "idle" /\ phase[b] = "unused" /\ vmap' = vmap
      \/ \E k \in Networks, v \in Ids :
           /\ web.op = "convert" /\ web'.b = web.b /\ k \in web.todo
           /\ vmap' = [vmap EXCEPT ![web.b][k] = v]
           /\ ReservePublic(k) \/ ReservePrivate(k)
  <2>0. web \in Webs
    BY <1>0 DEF TypeOK
  <2>1. ASSUME NEW k \in Networks, ReservePublic(k)
        PROVE  \E v \in Ids : /\ web.op = "convert" /\ web'.b = web.b /\ k \in web.todo
                              /\ vmap' = [vmap EXCEPT ![web.b][k] = v]
    <3>1. web' = [web EXCEPT !.todo = @ \ {k}]
      BY <2>1 DEF ReservePublic
    <3>2. web'.b = web.b
      BY <2>0, <3>1 DEF Webs
    <3>. QED BY <2>1, <3>2 DEF ReservePublic, Ids
  <2>2. ASSUME NEW k \in Networks, ReservePrivate(k)
        PROVE  \E v \in Ids : /\ web.op = "convert" /\ web'.b = web.b /\ k \in web.todo
                              /\ vmap' = [vmap EXCEPT ![web.b][k] = v]
    <3>1. PICK v \in web.row : /\ web' = [web EXCEPT !.todo = @ \ {k}, !.row = @ \ {v}]
                               /\ vmap' = [vmap EXCEPT ![web.b][k] = v]
      BY <2>2 DEF ReservePrivate
    <3>2. web'.b = web.b /\ v \in Ids
      BY <2>0, <3>1 DEF Webs, Ids
    <3>. QED BY <2>2, <3>1, <3>2 DEF ReservePrivate
  <2>3. CASE \E k \in Networks : ReleasePublic(k) \/ ReleasePrivate(k)
    <3>1. PICK k \in Networks : ReleasePublic(k) \/ ReleasePrivate(k)
      BY <2>3
    <3>2. web.op # "idle" /\ vmap' = vmap
      BY <3>1 DEF ReleasePublic, ReleasePrivate
    <3>3. web'.op = "idle" \/ web'.b = web.b
      <4>1. CASE ReleasePublic(k)
        BY <2>0, <4>1 DEF ReleasePublic, IdleWeb, Webs
      <4>2. CASE ReleasePrivate(k)
        BY <2>0, <4>2 DEF ReleasePrivate, Webs
      <4>. QED BY <3>1, <4>1, <4>2
    <3>. QED BY <3>2, <3>3
  <2>4. CASE FailAcquire \/ \E h \in Hosts : AcquireHost(h)
    <3>1. web.op # "idle" /\ vmap' = vmap /\ web'.b = web.b
      BY <2>0, <2>4 DEF FailAcquire, AcquireHost, Webs
    <3>. QED BY <3>1
  <2>5. CASE FailConvert \/ FinishUndo \/ \E R \in SUBSET Hosts : FinishConvert(R)
    BY <2>5 DEF FailConvert, FinishUndo, FinishConvert, IdleWeb
  <2>6. CASE \E b \in Bookings : StartConvert(b)
    BY <2>6 DEF StartConvert
  <2>7. CASE \/ \E b \in Bookings : DeleteBooking(b) \/ EndBooking(b) \/ FreePod(b)
             \/ \E p \in Pollers : PollStep(p)
             \/ UNCHANGED vars
    <3>1. web' = web /\ vmap' = vmap
      BY <1>0, <2>7, RunBeside DEF DeleteBooking, EndBooking, FreePod, vars
    <3>. QED BY <3>1
  <2>. QED BY <2>1, <2>2, <2>3, <2>4, <2>5, <2>6, <2>7 DEF Next, WebStep
<1>. QED BY <1>1, <1>2, <1>3, <1>4

(* The steps of the web worker, of users and of free_hosts leave every id  *)
(* in one place.                                                           *)
LEMMA ApartWeb ==
  ASSUME IInv, InvGiven, InvNets, InvWired, InvApart, InvDistinct, [Next]_vars, Orderly,
         WebStep \/ \E c \in Bookings : EndBooking(c) \/ FreePod(c),
         ~\E R \in SUBSET Hosts : FinishConvert(R)
  PROVE  InvApart'
<1>. USE NullAssumption
<1>0. /\ TypeOK /\ InvConvert /\ NetworksApart /\ web \in Webs /\ pool \subseteq Vlans
      /\ inUse \subseteq PublicVlans /\ Vlans \cap PublicVlans = {}
  BY VlansAssumption DEF IInv, TypeOK
<1>1. /\ Watched' \subseteq Watched /\ PublicVlans \subseteq Watched /\ PublicVlans \subseteq Watched'
      /\ Watched \subseteq Ids
      /\ ~lost' => ~lost /\ Watched = Ids /\ Watched' = Ids
      /\ lost' => Watched' = PublicVlans
      /\ None \notin Watched
  <2>. HIDE NullAssumption
  <2>. QED BY <1>0, WatchedShrinks
<1>2. \A h \in Hosts, x \in Ports : Keeps(h, x)' \subseteq Keeps(h, x)
  BY <1>0, KeepsWeb
<1>3. ASSUME NEW b \in Bookings, StartConvert(b) PROVE InvApart'
  <2>1. /\ web.op = "idle" /\ web' = [op |-> "convert", b |-> b, todo |-> NetworksOf(b), row |-> pool, next |-> 1]
        /\ UNCHANGED <<pool, inUse, vmap>> /\ phase[b] = "unused"
    BY <1>3 DEF StartConvert
  <2>2. \A n \in Networks : vmap'[web'.b][n] = None
    BY <1>0, <2>1 DEF InvConvert
  <2>3. Reserved' = {} /\ Free' \subseteq Free
    BY <1>1, <2>1, <2>2 DEF Reserved, Reserving, Free
  <2>. QED BY <1>2, <2>3, ApartShrinks
<1>4. ASSUME NEW n \in Networks, ReservePublic(n) PROVE InvApart'
  <2>1. PICK v \in PublicVlans \ inUse : inUse' = inUse \cup {v} /\ vmap' = [vmap EXCEPT ![web.b][n] = v]
    BY <1>4 DEF ReservePublic
  <2>2. /\ web.op = "convert" /\ web.b \in Bookings /\ pool' = pool
        /\ web' = [web EXCEPT !.todo = @ \ {n}]
    BY <1>0, <1>4 DEF ReservePublic, TypeOK
  <2>3. web'.op = "convert" /\ web'.b = web.b
    BY <1>0, <2>2 DEF Webs
  <2>4. \A m \in Networks : vmap'[web.b][m] = IF m = n THEN v ELSE vmap[web.b][m]
    BY <1>0, <2>1, <2>2 DEF TypeOK
  <2>5. Reserved' \subseteq Reserved \cup {v}
    BY <1>1, <2>2, <2>3, <2>4 DEF Reserved, Reserving
  <2>6. {v} \in SUBSET Free /\ Free' \subseteq Free \ {v}
    BY <1>0, <1>1, <2>1, <2>2 DEF Free
  <2>. QED BY <1>2, <2>5, <2>6, ApartReserve
<1>5. ASSUME NEW n \in Networks, ReservePrivate(n) PROVE InvApart'
  <2>1. PICK v \in web.row : /\ web' = [web EXCEPT !.todo = @ \ {n}, !.row = @ \ {v}]
                             /\ pool' = web.row \ {v} /\ lost' = (lost \/ web.row # pool)
                             /\ vmap' = [vmap EXCEPT ![web.b][n] = v]
    BY <1>5 DEF ReservePrivate, SavePool
  <2>2. /\ web.op = "convert" /\ web.b \in Bookings /\ inUse' = inUse /\ v \in Vlans /\ web.row \subseteq Vlans
    BY <1>0, <1>5 DEF ReservePrivate, TypeOK, Webs
  <2>3. web'.op = "convert" /\ web'.b = web.b
    BY <1>0, <2>1, <2>2 DEF Webs
  <2>4. \A m \in Networks : vmap'[web.b][m] = IF m = n THEN v ELSE vmap[web.b][m]
    BY <1>0, <2>1, <2>2 DEF TypeOK
  <2>5. Reserved' \subseteq Reserved \cup {v}
    BY <1>1, <2>2, <2>3, <2>4 DEF Reserved, Reserving
  <2>7. CASE lost'
    <3>1. v \notin Reserved' /\ Free' \subseteq Free
      BY <1>0, <1>1, <2>1, <2>2, <2>7 DEF Free, Reserved
    <3>. QED BY <1>2, <2>5, <3>1, ApartShrinks
  <2>8. CASE ~lost'
    <3>1. web.row = pool
      BY <1>0, <2>1, <2>8 DEF TypeOK
    <3>2. Watched = Ids /\ Watched' = Ids /\ v \in Ids /\ v \in pool /\ pool' = pool \ {v}
      BY <1>1, <2>1, <2>2, <2>8, <3>1 DEF Ids
    <3>3. v \notin PublicVlans
      BY <1>0, <2>2
    <3>4. {v} \in SUBSET Free
      BY <3>2 DEF Free
    <3>5. Free' \subseteq Free \ {v}
      BY <2>2, <3>2, <3>3 DEF Free
    <3>. QED BY <1>2, <2>5, <3>4, <3>5, ApartReserve
  <2>. QED BY <2>7, <2>8
<1>6. ASSUME NEW n \in Networks, ReleasePublic(n) PROVE InvApart'
  <2>1. web.op = "undo" /\ web.b \in Bookings /\ pool' = pool /\ vmap' = vmap /\ n \in web.todo
    BY <1>0, <1>6 DEF ReleasePublic, TypeOK
  <2>3. CASE vmap[web.b][n] \in inUse
    <3>1. inUse' = inUse \ {vmap[web.b][n]} /\ web' = [web EXCEPT !.todo = @ \ {n}]
      BY <1>6, <2>3 DEF ReleasePublic
    <3>2. web'.op = "undo" /\ web'.b = web.b /\ web'.todo = web.todo \ {n}
      BY <1>0, <2>1, <3>1 DEF Webs
    <3>. DEFINE v == vmap[web.b][n]
    <3>3. v \in PublicVlans /\ v # None
      BY <1>0, <1>1, <2>3
    <3>4. {v} \in SUBSET Reserved
      BY <1>1, <2>1, <3>3 DEF Reserved, Reserving
    <3>5. \A m \in Networks : vmap[web.b][m] = v => m = n
      BY <2>1, <3>3 DEF InvDistinct
    <3>6. Reserved' \subseteq Reserved \ {v}
      <4>. HIDE DEF v
      <4>. QED BY <1>1, <2>1, <3>2, <3>5 DEF Reserved, Reserving
    <3>7. Free' \subseteq Free \cup {v}
      BY <1>1, <2>1, <3>1, <3>3 DEF Free
    <3>. HIDE DEF v
    <3>. QED BY <1>2, <3>4, <3>6, <3>7, ApartRelease
  <2>4. CASE vmap[web.b][n] \notin inUse
    <3>1. web' = IdleWeb /\ inUse' = inUse
      BY <1>6, <2>4 DEF ReleasePublic
    <3>2. Reserved' \subseteq Reserved /\ Free' \subseteq Free
      BY <1>1, <2>1, <3>1 DEF Reserved, Reserving, Free, IdleWeb
    <3>. QED BY <1>2, <3>2, ApartShrinks
  <2>. QED BY <2>3, <2>4
<1>7. ASSUME NEW n \in Networks, ReleasePrivate(n) PROVE InvApart'
  <2>. DEFINE M == {vmap[web.b][n]} \cap Vlans
  <2>1. /\ web.op = "undo" /\ web.b \in Bookings /\ inUse' = inUse /\ vmap' = vmap /\ n \in web.todo
        /\ web' = [web EXCEPT !.todo = @ \ {n}, !.row = @ \cup M]
        /\ pool' = web'.row /\ lost' = (lost \/ web.row # pool)
    BY <1>0, <1>7 DEF ReleasePrivate, SavePool, TypeOK
  <2>2. web'.op = "undo" /\ web'.b = web.b /\ web'.todo = web.todo \ {n} /\ pool' = web.row \cup M
        /\ web.row \subseteq Vlans
    BY <1>0, <2>1 DEF Webs
  <2>4. Reserved' \subseteq Reserved
    BY <1>1, <2>1, <2>2 DEF Reserved, Reserving
  <2>5. CASE lost'
    <3>1. Free' \subseteq Free
      BY <1>0, <1>1, <2>1, <2>2, <2>5 DEF Free
    <3>. QED BY <1>2, <2>4, <3>1, ApartShrinks
  <2>6. CASE ~lost'
    <3>1. pool' = pool \cup M
      BY <1>0, <2>1, <2>2, <2>6 DEF TypeOK
    <3>2. M \in SUBSET Reserved
      <4>1. Vlans \subseteq Watched
        BY <1>1, <2>6 DEF Ids
      <4>2. n \in Reserving
        BY <2>1 DEF Reserving
      <4>3. ASSUME NEW v \in M PROVE v \in Reserved
        BY <4>1, <4>2 DEF Reserved
      <4>. QED BY <4>3
    <3>3. Free' \subseteq Free \cup M
      BY <1>1, <2>1, <3>1 DEF Free
    <3>4. Reserved' \cap M = {}
      <4>1. ASSUME NEW m \in Networks, vmap[web.b][m] \in M PROVE m = n
        <5>1. vmap[web.b][m] = vmap[web.b][n] /\ vmap[web.b][m] # None
          BY <4>1, VlansAssumption
        <5>. QED BY <2>1, <5>1 DEF InvDistinct
      <4>. QED BY <2>1, <2>2, <4>1 DEF Reserved, Reserving
    <3>. HIDE DEF M
    <3>. QED BY <1>2, <2>4, <3>2, <3>3, <3>4, ApartRelease
  <2>. QED BY <2>5, <2>6
<1>8. CASE \/ \E h \in Hosts : AcquireHost(h)
           \/ FailConvert \/ FailAcquire \/ FinishUndo
           \/ \E b \in Bookings : DeleteBooking(b) \/ EndBooking(b) \/ FreePod(b)
  <2>1. /\ UNCHANGED <<pool, inUse, vmap>>
        /\ web' = web \/ web'.op = "idle" \/ (web.op = "convert" /\ web'.b = web.b)
    <3>1. UNCHANGED <<pool, inUse, vmap>>
      BY <1>8 DEF AcquireHost, FailConvert, FailAcquire, FinishUndo, DeleteBooking, EndBooking, FreePod
    <3>2. CASE FailAcquire \/ \E h \in Hosts : AcquireHost(h)
      BY <1>0, <3>1, <3>2 DEF FailAcquire, AcquireHost, Webs
    <3>. QED BY <1>8, <3>1, <3>2 DEF FailConvert, FinishUndo, DeleteBooking, EndBooking, FreePod, IdleWeb
  <2>2. Free' \subseteq Free /\ Reserved' \subseteq Reserved
    <3>1. Free' \subseteq Free
      BY <1>1, <2>1 DEF Free
    <3>2. Reserving' \subseteq Reserving
      BY <2>1 DEF Reserving
    <3>3. web'.op # "idle" => web'.b = web.b
      BY <2>1
    <3>. QED BY <1>1, <2>1, <3>1, <3>2, <3>3 DEF Reserved, Reserving
  <2>. QED BY <1>2, <2>2, ApartShrinks
<1>. QED BY <1>3, <1>4, <1>5, <1>6, <1>7, <1>8 DEF WebStep

(* The reserved ids of a conversion become those of the ports of its pod,  *)
(* each on one port, for the template is plain.                            *)
LEMMA ApartFinish ==
  ASSUME IInv, InvGiven, InvNets, InvWired, InvApart, InvDistinct, [Next]_vars, Orderly,
         NEW R \in SUBSET Hosts, FinishConvert(R)
  PROVE  InvApart'
<1>. USE NullAssumption
<1>. DEFINE T == Template[web.b]
<1>0. TypeOK /\ InvConvert /\ web.op = "convert" /\ web.b \in Bookings /\ broken = {} /\ Plain(web.b)
  BY DEF IInv, TypeOK, FinishConvert, Orderly
<1>1. /\ UNCHANGED <<pool, inUse, config, pod, vmap, poll, lost, cleaning>> /\ web' = IdleWeb
      /\ web.todo = {} /\ web.next > Len(T) /\ WebStep
  BY DEF FinishConvert, WebStep
<1>2. Watched' = Watched /\ Free' = Free /\ Reserved' = {}
  BY <1>1 DEF Watched, Free, Reserved, Reserving, IdleWeb
<1>3. \A h \in Hosts, x \in Ports : pod[h] # web.b => Keeps(h, x)' \subseteq Keeps(h, x)
  BY <1>0, <1>1, KeepsWeb
<1>4. PICK host \in [1..Len(T) -> Hosts] :
        /\ PodOf(web.b) = {host[i] : i \in 1..Len(T)}
        /\ \A i \in 1..Len(T), x \in Ports : config[host[i]][x] = {vmap[web.b][n] : n \in T[i][x]}
  BY <1>0, <1>1, AllWired
<1>5. T \in Seq([Ports -> SUBSET Networks])
  BY <1>0, TemplateAssumption
<1>6. ASSUME NEW h \in Hosts, NEW x \in Ports, NEW v \in Keeps(h, x)', pod[h] = web.b
      PROVE  \E i \in 1..Len(T) : h = host[i] /\ \E n \in T[i][x] : v = vmap[web.b][n] /\ n \in Networks
  <2>1. h \in PodOf(web.b) /\ v \in config[h][x]
    BY <1>1, <1>6 DEF PodOf, Keeps
  <2>2. PICK i \in 1..Len(T) : h = host[i]
    BY <1>4, <2>1
  <2>3. PICK n \in T[i][x] : v = vmap[web.b][n]
    BY <1>4, <2>1, <2>2
  <2>. QED BY <1>5, <2>2, <2>3
<1>7. ASSUME NEW h \in Hosts, NEW x \in Ports, pod[h] = web.b
      PROVE  Keeps(h, x)' \subseteq Reserved
  <2>. SUFFICES ASSUME NEW v \in Keeps(h, x)' PROVE v \in Reserved
    OBVIOUS
  <2>1. v \in Watched
    BY <1>2 DEF Keeps
  <2>. QED BY <1>0, <1>6, <1>7, <2>1 DEF Reserved, Reserving
<1>8. ASSUME NEW h \in Hosts, NEW g \in Hosts, NEW x \in Ports, NEW y \in Ports,
             pod[h] = web.b, pod[g] = web.b, NEW v \in Keeps(h, x)', v \in Keeps(g, y)'
      PROVE  h = g /\ x = y
  <2>1. PICK i \in 1..Len(T), n \in Networks : h = host[i] /\ n \in T[i][x] /\ v = vmap[web.b][n]
    BY <1>6, <1>8
  <2>2. PICK j \in 1..Len(T), m \in Networks : g = host[j] /\ m \in T[j][y] /\ v = vmap[web.b][m]
    BY <1>6, <1>8
  <2>3. v # None
    <3>. HIDE NullAssumption
    <3>. QED BY <1>0, <1>2, WatchedShrinks DEF Keeps
  <2>4. n = m
    BY <1>0, <2>1, <2>2, <2>3 DEF InvDistinct
  <2>. QED BY <1>0, <2>1, <2>2, <2>4 DEF Plain
<1>9. ASSUME NEW h \in Hosts, NEW x \in Ports
      PROVE  Keeps(h, x)' \cap Free = {}
  BY <1>3, <1>7 DEF InvApart
<1>a. ASSUME NEW h \in Hosts, NEW g \in Hosts, NEW x \in Ports, NEW y \in Ports, h # g \/ x # y
      PROVE  Keeps(h, x)' \cap Keeps(g, y)' = {}
  <2>1. CASE pod[h] = web.b /\ pod[g] = web.b
    BY <1>8, <1>a, <2>1
  <2>2. CASE pod[h] # web.b /\ pod[g] = web.b
    BY <1>3, <1>7, <2>2 DEF InvApart
  <2>3. CASE pod[h] = web.b /\ pod[g] # web.b
    BY <1>3, <1>7, <2>3 DEF InvApart
  <2>4. CASE pod[h] # web.b /\ pod[g] # web.b
    BY <1>3, <1>a, <2>4 DEF InvApart
  <2>. QED BY <2>1, <2>2, <2>3, <2>4
<1>. QED BY <1>2, <1>9, <1>a DEF InvApart

(* A step of a run leaves no wired port unread that was read before.       *)
LEMMA UnreadKept ==
  ASSUME TypeOK, InvWhole, InvRuns, broken' = {}, NEW p \in Pollers, PollStep(p),
         NEW h \in Hosts, NEW x \in Ports, pod[h] # None, config'[h][x] # {}, Unread(h, x)'
  PROVE  Unread(h, x)
<1>. USE NullAssumption DEF histVars
<1>1. /\ pod' = pod /\ broken = {} /\ cleaning \subseteq cleaning' /\ poll[p] \in Polls
      /\ \A q \in Pollers : q # p => poll'[q] = poll[q]
      /\ poll \in [Pollers -> Polls]
  BY RunBeside DEF TypeOK, PollsOK
<1>2. PICK b \in Bookings : b = pod[h]
  BY DEF TypeOK
<1>3. CASE phase'[b] = "live" \/ b \notin cleaning'
  BY <1>1, <1>2, <1>3, RunBeside DEF Unread
<1>4. ASSUME NEW q \in Pollers, q # p, poll'[q].cur = b, poll'[q].host # h \/ poll'[q].port # x
      PROVE  Unread(h, x)
  BY <1>1, <1>2, <1>4 DEF Unread
<1>5. ASSUME poll'[p].cur = b PROVE Unread(h, x)
  <2>1. ASSUME NEW c \in Bookings, PickCleanup(p, c) PROVE Unread(h, x)
    <3>1. poll'[p].cur = c /\ c \notin cleaning
      BY <1>1, <2>1 DEF PickCleanup, IdlePoll
    <3>. QED BY <1>2, <1>5, <3>1 DEF Unread
  <2>2. CASE ClearPort(p)
    <3>1. poll'[p] = [poll[p] EXCEPT !.port = None, !.ports = poll[p].ports \ {poll[p].port},
                                     !.row = IF poll[p].acc # {} THEN poll[p].row \cup poll[p].acc
                                                                ELSE poll[p].row]
      BY <1>1, <2>2 DEF ClearPort
    <3>2. poll[p].cur = b
      BY <1>1, <1>5, <3>1 DEF Polls
    <3>3. poll[p].host # h \/ poll[p].port # x
      BY <2>2 DEF ClearPort, TypeOK
    <3>. QED BY <1>2, <3>2, <3>3 DEF Unread
  <2>3. ASSUME NEW y \in Ports, ReadPort(p, y) PROVE Unread(h, x)
    <3>. DEFINE found == config[poll[p].host][y]
    <3>1. /\ poll[p].port = None
          /\ poll'[p] = [poll[p] EXCEPT !.port = y, !.acc = poll[p].acc \cup (found \cap Vlans),
                                        !.row = IF found # {} /\ ~poll[p].loaded THEN pool ELSE poll[p].row,
                                        !.loaded = (poll[p].loaded \/ found # {})]
      BY <1>1, <2>3 DEF ReadPort
    <3>2. poll[p].cur = b
      BY <1>1, <1>5, <3>1 DEF Polls
    <3>. QED BY <1>2, <3>1, <3>2 DEF Unread
  <2>4. ASSUME NEW g \in Hosts, PickHost(p, g) PROVE Unread(h, x)
    <3>1. /\ poll[p].host = None
          /\ poll'[p] = [poll[p] EXCEPT !.host = g, !.ports = Ports, !.acc = {}, !.row = {},
                                        !.loaded = FALSE]
      BY <1>1, <2>4 DEF PickHost
    <3>2. poll[p].cur = b
      BY <1>1, <1>5, <3>1 DEF Polls
    <3>. QED BY <1>2, <3>1, <3>2 DEF Unread
  <2>5. CASE FinishHost(p)
    <3>1. /\ poll[p].port = None
          /\ \/ poll'[p] = IdlePoll
             \/ poll'[p] = [poll[p] EXCEPT !.host = None, !.hosts = poll[p].hosts \ {poll[p].host}]
      BY <1>1, <2>5 DEF FinishHost
    <3>2. poll[p].cur = b
      <4>1. IdlePoll.cur = None /\ b # None
        BY DEF IdlePoll
      <4>2. poll'[p] = [poll[p] EXCEPT !.host = None, !.hosts = poll[p].hosts \ {poll[p].host}]
        BY <1>5, <3>1, <4>1
      <4>. QED BY <1>1, <1>5, <4>2 DEF Polls
    <3>. QED BY <1>2, <3>1, <3>2 DEF Unread
  <2>6. CASE FinishCleanup(p) \/ AbortPoll(p)
    BY <1>1, <1>5, <2>6 DEF FinishCleanup, AbortPoll, IdlePoll
  <2>. QED BY <2>1, <2>2, <2>3, <2>4, <2>5, <2>6 DEF PollStep
<1>. QED BY <1>1, <1>2, <1>3, <1>4, <1>5 DEF Unread

(* A run gives back the ids of the port it is at, and no others.           *)
LEMMA ApartRun ==
  ASSUME IInv, InvWhole, InvRuns, InvApart, [Next]_vars, Orderly', NEW p \in Pollers, PollStep(p)
  PROVE  InvApart'
<1>. USE NullAssumption DEF histVars
<1>0. /\ TypeOK /\ Orderly /\ broken = {} /\ broken' = {} /\ pool \subseteq Vlans /\ pool' \subseteq Vlans
      /\ Vlans \cap PublicVlans = {} /\ UNCHANGED <<pod, vmap, web>>
      /\ poll \in [Pollers -> Polls] /\ poll[p] \in Polls
  <2>1. TypeOK
    BY DEF IInv
  <2>2. broken \subseteq broken' /\ UNCHANGED <<pod, vmap, web>>
    BY <2>1, RunBeside
  <2>3. pool' \subseteq Vlans
    BY <2>1, TypeStep DEF TypeOK
  <2>. QED BY <2>1, <2>2, <2>3, VlansAssumption DEF Orderly, TypeOK, PollsOK
<1>1. /\ Watched' \subseteq Watched /\ PublicVlans \subseteq Watched
      /\ ~lost' => ~lost /\ Watched = Ids /\ Watched' = Ids
      /\ lost' => Watched' = PublicVlans
  <2>. HIDE NullAssumption
  <2>. QED BY <1>0, WatchedShrinks
<1>2. \A h \in Hosts, x \in Ports : Keeps(h, x)' \subseteq Keeps(h, x)
  <2>. HIDE NullAssumption
  <2>. QED BY <1>0, UnreadKept, KeepsRun
<1>3. Reserved' \subseteq Reserved
  BY <1>0, <1>1 DEF Reserved, Reserving
<1>4. poll[p].cur # None =>
        /\ poll[p].cur \in Bookings /\ phase[poll[p].cur] = "ended" /\ Steady(p)
        /\ poll[p].host # None => poll[p].host \in Hosts /\ pod[poll[p].host] = poll[p].cur
  BY <1>0, RunHost DEF InvRuns
<1>5. ASSUME NEW x \in Ports, ReadPort(p, x) PROVE InvApart'
  <2>. DEFINE found == config[poll[p].host][x]
  <2>1. /\ poll[p].host # None /\ poll[p].port = None /\ inUse' = inUse \ found
        /\ UNCHANGED <<pool, config, phase, lost, cleaning>>
        /\ poll'[p] = [poll[p] EXCEPT !.port = x, !.acc = poll[p].acc \cup (found \cap Vlans),
                                      !.row = IF found # {} /\ ~poll[p].loaded THEN pool ELSE poll[p].row,
                                      !.loaded = (poll[p].loaded \/ found # {})]
        /\ \A q \in Pollers : q # p => poll'[q] = poll[q]
    BY <1>0, <1>5 DEF ReadPort
  <2>2. poll'[p].host = poll[p].host /\ poll'[p].port = x
    BY <1>0, <2>1 DEF Polls
  <2>3. PICK g \in Hosts : g = poll[p].host /\ poll[p].cur # None
    BY <1>0, <2>1, RunTypes
  <2>4. /\ pod[g] = poll[p].cur /\ phase[pod[g]] = "ended" /\ pod[g] \in cleaning
        /\ \A q \in Pollers : poll[q].cur = pod[g] => q = p
    BY <1>4, <2>1, <2>3 DEF Steady
  <2>. DEFINE M == found \cap PublicVlans
  <2>5. M \in SUBSET Keeps(g, x)
    <3>1. Unread(g, x)
      BY <2>1, <2>4 DEF Unread
    <3>. QED BY <1>1, <2>3, <2>4, <3>1 DEF Keeps, Standing
  <2>6. Free' \subseteq Free \cup M
    BY <1>1, <2>1 DEF Free
  <2>7. Keeps(g, x)' \cap M = {}
    <3>1. ~Unread(g, x)'
      BY <1>0, <2>1, <2>2, <2>3, <2>4, ZenonT(60) DEF Unread
    <3>. QED BY <1>0, <3>1 DEF Keeps
  <2>. HIDE DEF M
  <2>. QED BY <1>0, <1>2, <1>3, <2>5, <2>6, <2>7, ApartClean
<1>6. CASE ClearPort(p)
  <2>1. /\ poll[p].port # None /\ inUse' = inUse
        /\ config' = [config EXCEPT ![poll[p].host][poll[p].port] = {}]
        /\ IF poll[p].acc # {} THEN SavePool(poll[p].row, poll[p].row \cup poll[p].acc)
                              ELSE UNCHANGED <<pool, lost>>
    BY <1>6 DEF ClearPort
  <2>2. CASE lost'
    <3>1. Free' \subseteq Free
      BY <1>0, <1>1, <2>1, <2>2 DEF Free
    <3>. QED BY <1>0, <1>2, <1>3, <3>1, ApartShrinks
  <2>3. CASE ~lost'
    <3>1. PICK g \in Hosts, y \in Ports : g = poll[p].host /\ y = poll[p].port /\ poll[p].cur # None
      BY <1>0, <2>1, RunTypes
    <3>. DEFINE M == config[g][y] \cap Vlans
    <3>2. pod[g] = poll[p].cur /\ phase[pod[g]] = "ended" /\ poll[p].acc \subseteq poll[p].row \cup config[g][y]
      BY <1>4, <2>1, <3>1 DEF Steady, Carried
    <3>3. pool' \subseteq pool \cup M
      <4>1. CASE poll[p].acc = {}
        BY <2>1, <4>1
      <4>2. CASE poll[p].acc # {}
        <5>1. pool' = poll[p].row \cup poll[p].acc /\ poll[p].row = pool
          BY <1>0, <2>1, <2>3, <4>2 DEF SavePool, TypeOK
        <5>. QED BY <1>0, <3>2, <5>1
      <4>. QED BY <4>1, <4>2
    <3>4. M \in SUBSET Keeps(g, y)
      BY <1>1, <2>3, <3>1, <3>2 DEF Keeps, Standing, Ids
    <3>5. Free' \subseteq Free \cup M
      BY <1>1, <2>1, <2>3, <3>3 DEF Free
    <3>6. Keeps(g, y)' \cap M = {}
      <4>1. config'[g][y] = {}
        BY <1>0, <2>1, <3>1 DEF TypeOK
      <4>. QED BY <4>1 DEF Keeps
    <3>. HIDE DEF M
    <3>. QED BY <1>0, <1>2, <1>3, <3>4, <3>5, <3>6, ApartClean
  <2>. QED BY <2>2, <2>3
<1>7. CASE \/ \E b \in Bookings : PickCleanup(p, b)
           \/ \E h \in Hosts : PickHost(p, h)
           \/ FinishHost(p) \/ FinishCleanup(p) \/ AbortPoll(p)
  <2>1. UNCHANGED <<pool, inUse, lost>>
    BY <1>7 DEF PickCleanup, PickHost, FinishHost, FinishCleanup, AbortPoll
  <2>2. Free' \subseteq Free
    BY <2>1 DEF Free, Watched
  <2>. QED BY <1>0, <1>2, <1>3, <2>2, ApartShrinks
<1>. QED BY <1>5, <1>6, <1>7 DEF PollStep

LEMMA ApartStep ==
  ASSUME IInv, InvGiven, InvWhole, InvRuns, InvNets, InvWired, InvApart, InvDistinct, [Next]_vars
  PROVE  InvApart'
<1>. SUFFICES ASSUME Orderly' PROVE InvApart'
  BY DEF InvApart
<1>1. TypeOK
  BY DEF IInv
<1>2. broken \subseteq broken'
  BY <1>1, WebBeside, RunBeside DEF Next, vars, histVars
<1>3. Orderly
  BY <1>2 DEF Orderly
<1>4. CASE WebStep \/ \E c \in Bookings : EndBooking(c) \/ FreePod(c)
  BY <1>3, <1>4, ApartWeb, ApartFinish
<1>5. ASSUME NEW p \in Pollers, PollStep(p) PROVE InvApart'
  BY <1>5, ApartRun
<1>6. CASE UNCHANGED vars
  <2>1. Free' = Free /\ Reserved' = Reserved
    BY <1>6 DEF vars, histVars, Free, Reserved, Reserving, Watched
  <2>2. \A h \in Hosts, x \in Ports : Keeps(h, x)' = Keeps(h, x)
    BY <1>6 DEF vars, histVars, Keeps, Unread, Watched
  <2>. QED BY <1>3, <2>1, <2>2, ApartShrinks
<1>. QED BY <1>4, <1>5, <1>6 DEF Next

----------------------------------------------------------------------------
(* Where every id is, in every reachable state.                            *)
THEOREM VlanPlaces == Spec => []PInv
<1>1. Init => PInv
  <2>. SUFFICES ASSUME Init PROVE PInv
    OBVIOUS
  <2>0. /\ pool = Vlans /\ inUse = {} /\ web.op = "idle"
        /\ \A h \in Hosts : pod[h] = None
        /\ \A b \in Bookings : phase[b] = "unused"
        /\ \A b \in Bookings, n \in Networks : vmap[b][n] = None
        /\ \A p \in Pollers : poll[p].cur = None
    BY DEF Init, IdleWeb, IdlePoll
  <2>1. IInv
    <3>1. TypeOK
      BY TypeInit
    <3>2. InvConvert /\ NetworksApart /\ CleanedPodsUnwired /\ InvCleanup
      BY <2>0 DEF InvConvert, NetworksApart, CleanedPodsUnwired, InvCleanup
    <3>. QED BY <3>1, <3>2 DEF IInv
  <2>2. InvGiven /\ InvWhole /\ InvRuns /\ InvNets /\ InvWired /\ InvOwned /\ InvDistinct
    BY <2>0 DEF InvGiven, InvWhole, Standing, InvRuns, InvNets, InvWired, InvOwned, InvDistinct
  <2>3. InvApart
    <3>1. Reserved = {} /\ \A h \in Hosts, x \in Ports : Keeps(h, x) = {}
      BY <2>0 DEF Reserved, Reserving, Keeps
    <3>. QED BY <3>1 DEF InvApart
  <2>. QED BY <2>1, <2>2, <2>3 DEF PInv
<1>2. PInv /\ [Next]_vars => PInv'
  <2>. SUFFICES ASSUME PInv, [Next]_vars PROVE PInv'
    OBVIOUS
  <2>1. /\ IInv /\ InvGiven /\ InvWhole /\ InvRuns /\ InvNets /\ InvWired /\ InvOwned /\ InvApart
        /\ InvDistinct /\ TypeOK /\ InvConvert
    BY DEF PInv, IInv
  <2>2. IInv'
    BY TypeStep, ConvertStep, CleanupStep, <2>1 DEF IInv
  <2>3. InvGiven'
    BY <2>1, GivenStep
  <2>4. InvWhole'
    BY <2>1, WholeStep
  <2>5. InvRuns'
    BY <2>1, RunsStep
  <2>6. InvNets'
    BY <2>1, NetsStep
  <2>7. InvWired'
    BY <2>1, WiredStep
  <2>8. InvOwned'
    BY <2>1, OwnedStep
  <2>9. InvApart'
    BY <2>1, ApartStep
  <2>a. InvDistinct'
    BY <2>1, DistinctStep
  <2>. QED BY <2>2, <2>3, <2>4, <2>5, <2>6, <2>7, <2>8, <2>9, <2>a DEF PInv
<1>. QED BY <1>1, <1>2, PTL DEF Spec

(* In an orderly history the ids on the ports of a live pod are not        *)
(* available to another booking: no interleaving of conversions, cleanups  *)
(* and expiries gives a network of a pod to a second pod.                  *)
THEOREM PodsKeepVlans == Spec => []LivePodsKeepNetworks
<1>1. PInv => LivePodsKeepNetworks
  <2>. SUFFICES ASSUME PInv, Orderly, NEW h \in Hosts, NEW x \in Ports, pod[h] # None,
                       phase[pod[h]] = "live"
                PROVE  /\ ~lost => config[h][x] \cap pool = {}
                       /\ config[h][x] \cap PublicVlans \subseteq inUse
    BY DEF LivePodsKeepNetworks
  <2>1. Keeps(h, x) \cap Free = {} /\ TypeOK
    BY DEF PInv, InvApart, IInv
  <2>2. Keeps(h, x) = config[h][x] \cap Watched
    BY DEF Keeps, Unread, Standing
  <2>3. PublicVlans \subseteq Watched /\ (~lost => pool \subseteq Watched)
    BY <2>1 DEF Watched, Ids, TypeOK
  <2>4. \A v \in Watched : v \in pool => v \in Free
    BY DEF Free
  <2>5. \A v \in PublicVlans \ inUse : v \in Free
    BY <2>3 DEF Free
  <2>. QED BY <2>1, <2>2, <2>3, <2>4, <2>5
<1>. QED BY <1>1, VlanPlaces, PTL

(* Until a save of the pool is lost, or a cleanup is crossed or redone,    *)
(* every id missing from the pool belongs to a booking that has it on a    *)
(* port or that never gives it back: cleanup_network loses none.           *)
THEOREM VlansAccounted == Spec => []VlansAccountedFor
<1>1. PInv => VlansAccountedFor
  <2>. SUFFICES ASSUME PInv, ~lost, broken = {}, NEW v \in Vlans \ pool
                PROVE  \E b \in Bookings : v \in Held(b) /\ phase[b] \notin {"cleaned", "freed"}
    BY DEF VlansAccountedFor
  <2>1. PICK b \in Bookings : Owns(b, v)
    BY DEF PInv, InvOwned
  <2>. QED BY <2>1 DEF Owns, Standing
<1>. QED BY <1>1, VlanPlaces, PTL

=============================================================================
