------------------------- MODULE FogBookings_proofs -------------------------
(***************************************************************************)
(* Proofs about FogBookings for any bookings, machines, names and schedule *)
(* and any number of crashes of the sensor, outages and changed bookings.  *)
(***************************************************************************)
EXTENDS FogBookings, SequenceFacts, TLAPS

-----------------------------------------------------------------------------
(* Type correctness. *)

(* One workflow goes on: it keeps its kind, booking and machine.           *)
LEMMA FlowUpdate ==
  ASSUME flows \in Seq(Flow), NEW i \in DOMAIN flows, NEW r \in Flow,
         flows' = [flows EXCEPT ![i] = r]
  PROVE  /\ flows' \in Seq(Flow) /\ DOMAIN flows' = DOMAIN flows
         /\ flows'[i] = r
         /\ \A j \in DOMAIN flows \ {i} : flows'[j] = flows[j]
OBVIOUS

LEMMA TypeInit == Init => TypeOK
<1>. SUFFICES ASSUME Init PROVE TypeOK
  OBVIOUS
<1>. QED BY FogAssumption DEF Init, TypeOK, Nothing, SensorAt

(* The sensor, users, operators and machines.                              *)
LEMMA TypeSensor ==
  ASSUME TypeOK, InvLoaded,
         \/ Tick \/ (\E b \in Bookings : ChangeBooking(b)) \/ (\E h \in Hosts : FinishImaging(h))
         \/ SensorStep \/ Restart
  PROVE  TypeOK'
<1>1. ASSUME Tick PROVE TypeOK'
  BY <1>1 DEF Tick, TypeOK, board, store, sensor, lab, losses, fog
<1>2. ASSUME NEW b \in Bookings, ChangeBooking(b) PROVE TypeOK'
  <2>1. dash[b] \in Slot
    BY <1>2 DEF ChangeBooking, TypeOK
  <2>2. dash' \in [Bookings -> Slot \cup {None}]
    <3>1. CASE dash' = [dash EXCEPT ![b] = None]
      BY <3>1 DEF TypeOK
    <3>2. ASSUME NEW w \in Windows,
                 dash' = [dash EXCEPT ![b] = [host |-> dash[b].host, start |-> w.start, end |-> w.end]]
          PROVE  dash' \in [Bookings -> Slot \cup {None}]
      <4>1. [host |-> dash[b].host, start |-> w.start, end |-> w.end] \in Slot
        BY <2>1, FogAssumption DEF Slot
      <4>. QED BY <3>2, <4>1 DEF TypeOK
    <3>. QED BY <1>2, <3>1, <3>2 DEF ChangeBooking
  <2>. QED BY <1>2, <2>2 DEF ChangeBooking, TypeOK, store, sensor, lab, losses, fog
<1>3. ASSUME NEW h \in Hosts, FinishImaging(h) PROVE TypeOK'
  BY <1>3 DEF FinishImaging, TypeOK, time, board, store, sensor, losses
<1>4. ASSUME Fetch PROVE TypeOK'
  BY <1>4 DEF Fetch, TypeOK, SensorAt, time, board, store, lab, losses, fog
<1>5. ASSUME NEW b \in Bookings, StoreBooking(b) PROVE TypeOK'
  <2>1. seen[b] \in Slot
    BY <1>5 DEF StoreBooking, New, TypeOK
  <2>2. [host |-> seen[b].host, start |-> seen[b].start, end |-> seen[b].end,
         status |-> 0, key |-> None] \in Record
    BY <2>1 DEF Slot, Record
  <2>. QED BY <1>5, <2>2 DEF StoreBooking, TypeOK, SensorAt, time, board, lab, losses, fog
<1>6. ASSUME ListBooking PROVE TypeOK'
  <2>1. cur \in Bookings
    BY <1>6 DEF ListBooking, TypeOK, InvLoaded
  <2>. QED BY <1>6, <2>1 DEF ListBooking, TypeOK, SensorAt, time, board, lab, losses, fog
<1>7. ASSUME StartCheck PROVE TypeOK'
  BY <1>7 DEF StartCheck, Nothing, TypeOK, SensorAt, time, board, store, lab, losses, fog
<1>8. ASSUME PassBooking PROVE TypeOK'
  BY <1>8 DEF PassBooking, TypeOK, time, board, store, lab, losses, fog
<1>9. ASSUME NEW to \in SensorAt, TakeBooking(to)
      PROVE  /\ cur' \in Bookings /\ copy' \in Record /\ queue' \in Seq(Bookings)
             /\ pc' \in SensorAt /\ UNCHANGED <<time, board, store, seen, draft, servers, lab, cut>>
  <2>1. Head(queue) \in Bookings
    BY <1>9 DEF TakeBooking, TypeOK
  <2>. QED BY <1>9, <2>1 DEF TakeBooking, TypeOK
<1>10. ASSUME BeginStart PROVE TypeOK'
  BY <1>9, <1>10 DEF BeginStart, TypeOK, SensorAt, time, board, store, lab, fog
<1>11. ASSUME BeginEnd PROVE TypeOK'
  <2>1. overrun' \subseteq overrun \cup {cur'}
    BY <1>11 DEF BeginEnd, NoteOverrun
  <2>2. overrun' \subseteq Bookings
    BY <1>9, <1>11, <2>1 DEF BeginEnd, TypeOK, SensorAt
  <2>. QED BY <1>9, <1>11, <2>2 DEF BeginEnd, TypeOK, SensorAt, time, board, store, lab, fog
<1>12. ASSUME RaiseInCheck PROVE TypeOK'
  BY <1>12 DEF RaiseInCheck, TypeOK, SensorAt, time, board, store, lab, losses, fog
<1>13. ASSUME FinishCheck PROVE TypeOK'
  BY <1>13 DEF FinishCheck, TypeOK, SensorAt, time, board, store, lab, losses, fog
<1>14. ASSUME ReadStatus PROVE TypeOK'
  <2>1. cur \in Bookings
    BY <1>14 DEF ReadStatus, TypeOK, InvLoaded, Starting, Ending
  <2>. QED BY <1>14, <2>1 DEF ReadStatus, TypeOK, SensorAt, time, board, store, lab, losses, fog
<1>15. ASSUME NEW v \in {1, 3}, pc \in {"startSave", "endSave"}, SaveStatus(v), pc' \in SensorAt
       PROVE  TypeOK'
  <2>1. cur \in Bookings /\ draft \in Record
    BY <1>15 DEF TypeOK, InvLoaded, Starting, Ending
  <2>2. [draft EXCEPT !.status = v] \in Record
    BY <2>1 DEF Record
  <2>. QED BY <1>15, <2>1, <2>2 DEF SaveStatus, TypeOK, time, board, lab, losses, fog
<1>16. ASSUME MarkStarted \/ MarkEnded PROVE TypeOK'
  BY <1>15, <1>16 DEF MarkStarted, MarkEnded, SensorAt
<1>17. ASSUME NEW kind \in {"deploy", "clean"}, NEW key \in Names \cup {None},
              pc \in {"startDispatch", "endDispatch"}, Dispatch(kind, key)
       PROVE  TypeOK'
  <2>1. cur \in Bookings /\ copy \in Record
    BY <1>17 DEF TypeOK, InvLoaded, Starting, Ending
  <2>2. [kind |-> kind, booking |-> cur, host |-> copy.host, stage |-> "image", task |-> 0,
         blind |-> FALSE, key |-> key, draft |-> None] \in Flow
    BY <2>1 DEF Record, Flow, Stages
  <2>3. flows' \in Seq(Flow)
    BY <1>17, <2>2 DEF Dispatch, TypeOK
  <2>. QED BY <1>17, <2>3 DEF Dispatch, TypeOK, SensorAt, time, board, store, losses, fog
<1>18. ASSUME DispatchStart \/ DispatchEnd PROVE TypeOK'
  <2>1. pc = "endDispatch" => copy.key \in Names \cup {None}
    BY DEF TypeOK, InvLoaded, Ending, Record
  <2>. QED BY <1>17, <1>18, <2>1 DEF DispatchStart, DispatchEnd
<1>19. ASSUME Unlist PROVE TypeOK'
  <2>1. list' \in Seq(Bookings)
    BY <1>19, RemoveAtFacts DEF Unlist, TypeOK
  <2>. QED BY <1>19, <2>1 DEF Unlist, TypeOK, SensorAt, time, board, lab, losses, fog
<1>20. ASSUME Forget PROVE TypeOK'
  BY <1>20 DEF Forget, TypeOK, SensorAt, time, board, lab, losses, fog
<1>21. ASSUME Restart PROVE TypeOK'
  <2>1. cut' \subseteq Bookings
    BY <1>21 DEF Restart, TypeOK, InvLoaded, Starting, Ending
  <2>2. servers' \subseteq Hosts
    BY <1>21 DEF Restart, TypeOK
  <2>. QED BY <1>21, <2>1, <2>2 DEF Restart, Nothing, TypeOK, SensorAt, board, store, lab, fog
<1>. QED BY <1>1, <1>2, <1>3, <1>4, <1>5, <1>6, <1>7, <1>8, <1>10, <1>11, <1>12, <1>13, <1>14,
            <1>16, <1>18, <1>19, <1>20, <1>21 DEF SensorStep

(* The workflows.                                                          *)
LEMMA TypeFlow ==
  ASSUME TypeOK, InvLoaded, NEW i \in DOMAIN flows, FlowStep(i)
  PROVE  TypeOK'
<1>. DEFINE f == flows[i]
<1>1. f \in Flow /\ i \in Nat /\ Mine(i) \in Hosts
  <2>1. flows \in Seq(Flow)
    BY DEF TypeOK
  <2>2. f \in Flow /\ i \in Nat
    BY <2>1
  <2>. QED BY <2>2 DEF Flow, Mine
<1>2. ASSUME NEW stage \in Stages, Step(i, stage)
      PROVE  flows' \in Seq(Flow)
  <2>1. [f EXCEPT !.stage = stage] \in Flow
    BY <1>1 DEF Flow
  <2>. QED BY <1>2, <2>1, FlowUpdate DEF Step, TypeOK
<1>3. AfterImaging(i) \in Stages
  BY DEF AfterImaging, Stages
<1>4. CASE StartImaging(i) \/ StartImagingTrouble(i)
  <2>1. flows' \in Seq(Flow)
    BY <1>2, <1>4 DEF StartImaging, StartImagingTrouble, Stages
  <2>2. task' \in [Hosts -> Nat] /\ cancelled' \subseteq Nat
    BY <1>1, <1>4 DEF StartImaging, StartImagingTrouble, NoHostNumber, CancelTask, TypeOK
  <2>. QED BY <1>4, <2>1, <2>2 DEF StartImaging, StartImagingTrouble, TypeOK, time, board, store,
              sensor, losses
<1>5. CASE FindTask(i)
  <2>1. [f EXCEPT !.stage = "watch", !.task = task[Mine(i)]] \in Flow
    BY <1>1 DEF Flow, Stages, TypeOK
  <2>2. flows' \in Seq(Flow)
    BY <1>5, <2>1, FlowUpdate DEF FindTask, TypeOK
  <2>. QED BY <1>5, <2>2 DEF FindTask, TypeOK, time, board, store, sensor, losses, fog
<1>6. CASE FindNoTask(i) \/ WatchTask(i) \/ MakeUserNoName(i)
  <2>1. flows' \in Seq(Flow)
    BY <1>2, <1>3, <1>6 DEF FindNoTask, WatchTask, MakeUserNoName, Stages
  <2>. QED BY <1>6, <2>1 DEF FindNoTask, WatchTask, MakeUserNoName, TypeOK, time, board, store,
              sensor, losses, fog
<1>7. CASE WatchOutage(i)
  <2>1. [f EXCEPT !.stage = AfterImaging(i), !.blind = TRUE] \in Flow
    BY <1>1, <1>3 DEF Flow
  <2>2. flows' \in Seq(Flow)
    BY <1>7, <2>1, FlowUpdate DEF WatchOutage, TypeOK
  <2>. QED BY <1>7, <2>2 DEF WatchOutage, TypeOK, board, store, sensor, losses, fog
<1>8. CASE Install(i)
  <2>1. flows' \in Seq(Flow)
    BY <1>2, <1>8 DEF Install, Stages
  <2>2. disk' \in [Hosts -> Bookings \cup {None}]
    BY <1>1, <1>8 DEF Install, TypeOK, Flow
  <2>. QED BY <1>8, <2>1, <2>2 DEF Install, TypeOK, time, board, store, sensor, losses
<1>9. CASE MakeUser(i)
  <2>1. PICK n \in Names :
          /\ users' = [users EXCEPT ![n] = i]
          /\ flows' = [flows EXCEPT ![i] = [f EXCEPT !.key = n, !.draft = rec[f.booking],
                         !.stage = IF rec[f.booking] = None THEN "failed" ELSE "save"]]
    BY <1>9 DEF MakeUser, AddUser, FreeNames
  <2>2. [f EXCEPT !.key = n, !.draft = rec[f.booking],
                  !.stage = IF rec[f.booking] = None THEN "failed" ELSE "save"] \in Flow
    BY <1>1 DEF Flow, Stages, TypeOK
  <2>3. flows' \in Seq(Flow)
    BY <2>1, <2>2, FlowUpdate DEF TypeOK
  <2>. QED BY <1>1, <1>9, <2>1, <2>3 DEF MakeUser, TypeOK, time, board, store, sensor, losses, fog
<1>10. CASE SaveUser(i)
  <2>1. f.draft \in Record /\ f.booking \in Bookings /\ f.key \in Names \cup {None}
    BY <1>1, <1>10 DEF SaveUser, InvLoaded, Flow
  <2>2. [f.draft EXCEPT !.key = f.key] \in Record
    BY <2>1 DEF Record
  <2>3. [f EXCEPT !.stage = "done", !.draft = None] \in Flow
    BY <1>1 DEF Flow, Stages
  <2>4. flows' \in Seq(Flow)
    BY <1>10, <2>3, FlowUpdate DEF SaveUser, TypeOK
  <2>. QED BY <1>10, <2>2, <2>4 DEF SaveUser, TypeOK, time, board, sensor, losses, fog
<1>11. CASE Revoke(i)
  <2>1. flows' \in Seq(Flow)
    BY <1>2, <1>11 DEF Revoke, Stages
  <2>. QED BY <1>11, <2>1 DEF Revoke, TypeOK, time, board, store, sensor, losses, fog
<1>12. CASE FailFlow(i)
  <2>1. [f EXCEPT !.stage = "failed", !.draft = None] \in Flow
    BY <1>1 DEF Flow, Stages
  <2>2. flows' \in Seq(Flow)
    BY <1>12, <2>1, FlowUpdate DEF FailFlow, TypeOK
  <2>. QED BY <1>12, <2>2 DEF FailFlow, TypeOK, board, store, sensor, losses, fog
<1>. QED BY <1>4, <1>5, <1>6, <1>7, <1>8, <1>9, <1>10, <1>11, <1>12 DEF FlowStep

LEMMA TypeStep ==
  ASSUME TypeOK, InvLoaded, [Next]_vars
  PROVE  TypeOK'
<1>1. CASE UNCHANGED vars
  BY <1>1 DEF vars, TypeOK, time, board, store, sensor, lab, fog, losses
<1>2. CASE \E i \in DOMAIN flows : FlowStep(i)
  BY <1>2, TypeFlow
<1>. QED BY <1>1, <1>2, TypeSensor DEF Next

-----------------------------------------------------------------------------
(* The steps in outline. *)

(* What a step of a workflow does to what the invariant speaks of.         *)
LEMMA FlowMove ==
  ASSUME TypeOK, InvLoaded, NEW i \in DOMAIN flows, FlowStep(i)
  PROVE  /\ UNCHANGED <<now, board, list, sensor, losses>>
         /\ DOMAIN flows' = DOMAIN flows
         /\ \A j \in DOMAIN flows :
               /\ flows'[j].kind = flows[j].kind /\ flows'[j].booking = flows[j].booking
               /\ j # i => flows'[j] = flows[j]
         /\ flows'[i].stage = "save" => /\ flows[i].stage = "user" /\ flows'[i].draft # None
                                        /\ flows'[i].draft = rec[flows[i].booking]
         /\ flows'[i].stage \in {"install", "user", "save"} => flows'[i].kind = "deploy"
         /\ \/ rec' = rec
            \/ /\ flows[i].stage = "save" /\ flows[i].draft \in Record
               /\ rec' = [rec EXCEPT ![flows[i].booking] = [flows[i].draft EXCEPT !.key = flows[i].key]]
<1>1. flows \in Seq(Flow) /\ flows[i] \in Flow
  <2>1. flows \in Seq(Flow)
    BY DEF TypeOK
  <2>. QED BY <2>1
<1>2. ASSUME NEW stage, Step(i, stage), stage \in {"install", "user"} => flows[i].kind = "deploy",
             stage # "save"
      PROVE  /\ DOMAIN flows' = DOMAIN flows
             /\ \A j \in DOMAIN flows :
                   /\ flows'[j].kind = flows[j].kind /\ flows'[j].booking = flows[j].booking
                   /\ j # i => flows'[j] = flows[j]
             /\ flows'[i].stage # "save"
             /\ flows'[i].stage \in {"install", "user", "save"} => flows'[i].kind = "deploy"
  BY <1>1, <1>2 DEF Step, Flow
<1>3. CASE StartImaging(i) \/ StartImagingTrouble(i)
  BY <1>2, <1>3 DEF StartImaging, StartImagingTrouble, time, board, store, sensor, losses
<1>4. CASE FindNoTask(i) \/ MakeUserNoName(i) \/ Revoke(i)
  BY <1>2, <1>4 DEF FindNoTask, MakeUserNoName, Revoke, time, board, store, sensor, losses
<1>5. CASE Install(i)
  <2>1. flows[i].kind = "deploy"
    BY <1>5 DEF Install, InvLoaded
  <2>. QED BY <1>2, <1>5, <2>1 DEF Install, time, board, store, sensor, losses
<1>6. CASE WatchTask(i)
  <2>1. AfterImaging(i) # "save" /\ (AfterImaging(i) \in {"install", "user"} => flows[i].kind = "deploy")
    BY DEF AfterImaging
  <2>. QED BY <1>2, <1>6, <2>1 DEF WatchTask, time, board, store, sensor, losses
<1>7. CASE FindTask(i)
  BY <1>1, <1>7 DEF FindTask, Flow, time, board, store, sensor, losses
<1>8. CASE WatchOutage(i)
  BY <1>1, <1>8 DEF WatchOutage, AfterImaging, Flow, time, board, store, sensor, losses
<1>9. CASE MakeUser(i)
  <2>1. flows[i].kind = "deploy" /\ flows[i].stage = "user"
    BY <1>9 DEF MakeUser, InvLoaded
  <2>2. PICK n \in Names :
          flows' = [flows EXCEPT ![i] = [flows[i] EXCEPT !.key = n, !.draft = rec[flows[i].booking],
                         !.stage = IF rec[flows[i].booking] = None THEN "failed" ELSE "save"]]
    BY <1>9 DEF MakeUser, FreeNames
  <2>. QED BY <1>1, <1>9, <2>1, <2>2 DEF MakeUser, Flow, time, board, store, sensor, losses
<1>10. CASE SaveUser(i)
  <2>1. flows[i].draft \in Record
    BY <1>1, <1>10 DEF SaveUser, InvLoaded, Flow
  <2>. QED BY <1>1, <1>10, <2>1 DEF SaveUser, Flow, time, board, store, sensor, losses
<1>11. CASE FailFlow(i)
  BY <1>1, <1>11 DEF FailFlow, Flow, time, board, store, sensor, losses
<1>. QED BY <1>3, <1>4, <1>5, <1>6, <1>7, <1>8, <1>9, <1>10, <1>11 DEF FlowStep

(* The workflows of a booking stay what they are when one of them goes on, *)
(* and a dispatch adds one to those of its kind and booking.               *)
LEMMA FlowSets ==
  ASSUME NEW b, DOMAIN flows' = DOMAIN flows,
         \A j \in DOMAIN flows : flows'[j].kind = flows[j].kind /\ flows'[j].booking = flows[j].booking
  PROVE  DeployFlows(b)' = DeployFlows(b) /\ CleanFlows(b)' = CleanFlows(b)
BY DEF DeployFlows, CleanFlows

LEMMA DispatchSets ==
  ASSUME TypeOK, NEW kind \in {"deploy", "clean"}, NEW key, Dispatch(kind, key), NEW b
  PROVE  /\ DeployFlows(b)' = DeployFlows(b) \cup
                IF kind = "deploy" /\ b = cur THEN {Len(flows) + 1} ELSE {}
         /\ CleanFlows(b)' = CleanFlows(b) \cup
                IF kind = "clean" /\ b = cur THEN {Len(flows) + 1} ELSE {}
         /\ DOMAIN flows' = DOMAIN flows \cup {Len(flows) + 1}
         /\ \A j \in DOMAIN flows : flows'[j] = flows[j]
         /\ flows'[Len(flows) + 1].stage = "image" /\ Len(flows) + 1 \notin DOMAIN flows
<1>. DEFINE n == Len(flows) + 1
<1>1. flows \in Seq(Flow) /\ Len(flows) \in Nat
  BY DEF TypeOK
<1>2. /\ DOMAIN flows' = DOMAIN flows \cup {n} /\ n \notin DOMAIN flows
      /\ \A j \in DOMAIN flows : flows'[j] = flows[j]
      /\ flows'[n].kind = kind /\ flows'[n].booking = cur /\ flows'[n].stage = "image"
  BY <1>1 DEF Dispatch
<1>. HIDE DEF n
<1>3. DeployFlows(b)' = DeployFlows(b) \cup IF kind = "deploy" /\ b = cur THEN {n} ELSE {}
  BY <1>2 DEF DeployFlows
<1>4. CleanFlows(b)' = CleanFlows(b) \cup IF kind = "clean" /\ b = cur THEN {n} ELSE {}
  BY <1>2 DEF CleanFlows
<1>. QED BY <1>2, <1>3, <1>4 DEF n

(* What the steps of the sensor, but for a dispatch, leave alone.          *)
LEMMA OthersKeepFlows ==
  ASSUME \/ Tick \/ (\E b \in Bookings : ChangeBooking(b)) \/ (\E h \in Hosts : FinishImaging(h))
         \/ SensorStep \/ Restart,
         ~DispatchStart, ~DispatchEnd
  PROVE  flows' = flows
BY DEF SensorStep, Tick, ChangeBooking, FinishImaging, Fetch, StoreBooking, ListBooking, StartCheck,
       PassBooking, BeginStart, BeginEnd, TakeBooking, RaiseInCheck, FinishCheck, ReadStatus,
       MarkStarted, MarkEnded, SaveStatus, Unlist, Forget, Restart, lab

LEMMA LoadedStep ==
  ASSUME TypeOK, InvLoaded, [Next]_vars
  PROVE  InvLoaded'
<1>1. CASE UNCHANGED vars
  BY <1>1 DEF vars, InvLoaded, sensor, lab
<1>2. ASSUME NEW i \in DOMAIN flows, FlowStep(i) PROVE InvLoaded'
  BY <1>2, FlowMove, ZenonT(60) DEF InvLoaded, sensor
<1>3. CASE DispatchStart \/ DispatchEnd
  <2>1. PICK kind \in {"deploy", "clean"}, key \in Names \cup {None, copy.key} : Dispatch(kind, key)
    BY <1>3 DEF DispatchStart, DispatchEnd
  <2>2. \A j \in DOMAIN flows' : flows'[j].stage = "image" \/ (j \in DOMAIN flows /\ flows'[j] = flows[j])
    BY <2>1, DispatchSets
  <2>3. pc' = "check"
    BY <2>1 DEF Dispatch
  <2>. QED BY <2>2, <2>3 DEF InvLoaded, Starting, Ending
<1>4. ASSUME \/ Tick \/ (\E b \in Bookings : ChangeBooking(b)) \/ (\E h \in Hosts : FinishImaging(h))
             \/ SensorStep \/ Restart,
             ~DispatchStart, ~DispatchEnd
      PROVE  InvLoaded'
  <2>1. flows' = flows
    BY <1>4, OthersKeepFlows
  <2>2. CASE Tick \/ (\E b \in Bookings : ChangeBooking(b)) \/ (\E h \in Hosts : FinishImaging(h))
    BY <2>1, <2>2 DEF Tick, ChangeBooking, FinishImaging, sensor, InvLoaded
  <2>3. CASE Restart \/ Fetch \/ StartCheck \/ ListBooking \/ PassBooking \/ RaiseInCheck \/ FinishCheck
    BY <2>1, <2>3 DEF Restart, Fetch, StartCheck, ListBooking, PassBooking, RaiseInCheck, FinishCheck,
          InvLoaded, Starting, Ending
  <2>4. ASSUME NEW b \in Bookings, StoreBooking(b) PROVE InvLoaded'
    BY <2>1, <2>4, FogAssumption DEF StoreBooking, InvLoaded, Starting, Ending
  <2>5. ASSUME NEW to \in {"start", "end"}, TakeBooking(to) PROVE InvLoaded'
    <3>1. Head(queue) \in Bookings /\ Head(queue) # None
      BY <2>5, FogAssumption DEF TakeBooking, TypeOK
    <3>. QED BY <2>1, <2>5, <3>1 DEF TakeBooking, InvLoaded, Starting, Ending
  <2>6. CASE ReadStatus
    BY <2>1, <2>6 DEF ReadStatus, InvLoaded, Starting, Ending
  <2>7. CASE MarkStarted \/ MarkEnded \/ Unlist \/ Forget
    BY <2>1, <2>7 DEF MarkStarted, MarkEnded, SaveStatus, Unlist, Forget, InvLoaded, Starting, Ending
  <2>. QED BY <1>4, <2>2, <2>3, <2>4, <2>5, <2>6, <2>7 DEF SensorStep, BeginStart, BeginEnd
<1>. QED BY <1>1, <1>2, <1>3, <1>4 DEF Next

-----------------------------------------------------------------------------
(* The list of bookings and their records. *)

(* Taking the head off the queue.                                          *)
LEMMA TailFacts ==
  ASSUME NEW S, NEW s \in Seq(S), s # <<>>, IsInjective(s)
  PROVE  /\ Tail(s) \in Seq(S) /\ IsInjective(Tail(s))
         /\ \A k \in DOMAIN Tail(s) : k + 1 \in DOMAIN s /\ Tail(s)[k] = s[k + 1] /\ Tail(s)[k] # Head(s)
         /\ 1 \in DOMAIN s /\ s[1] = Head(s)
<1>1. /\ Tail(s) \in Seq(S) /\ Len(Tail(s)) = Len(s) - 1 /\ Len(s) \in Nat \ {0}
      /\ \A k \in 1..Len(s) - 1 : Tail(s)[k] = s[k + 1]
      /\ DOMAIN Tail(s) = 1..Len(s) - 1 /\ DOMAIN s = 1..Len(s) /\ s[1] = Head(s)
  OBVIOUS
<1>2. \A j, k \in DOMAIN s : s[j] = s[k] => j = k
  BY DEF IsInjective
<1>3. \A j, k \in DOMAIN Tail(s) : Tail(s)[j] = Tail(s)[k] => j = k
  BY <1>1, <1>2
<1>4. \A k \in DOMAIN Tail(s) : k + 1 \in DOMAIN s /\ Tail(s)[k] = s[k + 1] /\ Tail(s)[k] # Head(s)
  BY <1>1, <1>2
<1>. QED BY <1>1, <1>3, <1>4 DEF IsInjective

LEMMA EmptyInjective == IsInjective(<<>>) /\ \A k : k \notin DOMAIN <<>>
BY DEF IsInjective

LEMMA ListInit == Init => InvList
BY EmptyInjective DEF Init, InvList, Listed, ListedHaveRecords, Starting

(* What goes on beside the sensor leaves its list alone, and takes no      *)
(* record away.                                                            *)
LEMMA ListBeside ==
  ASSUME InvList, UNCHANGED <<list, sensor>>,
         \A b \in Bookings : rec'[b] = None => rec[b] = None,
         cur \in Bookings \cup {None}, pc = "list" => cur # None
  PROVE  InvList'
BY DEF InvList, sensor, Listed, ListedHaveRecords

(* removeBooking takes one booking off the list.                           *)
LEMMA UnlistFacts ==
  ASSUME TypeOK, InvList, Unlist
  PROVE  IsInjective(list') /\ \A b : Listed(b)' <=> b # cur /\ Listed(b)
<1>1. PICK k \in DOMAIN list : list[k] = cur /\ list' = RemoveAt(list, k)
  BY DEF Unlist
<1>2. list \in Seq(Bookings) /\ IsInjective(list)
  BY DEF TypeOK, InvList
<1>3. /\ IsInjective(RemoveAt(list, k))
      /\ \A x : (\E i \in DOMAIN RemoveAt(list, k) : RemoveAt(list, k)[i] = x)
                  <=> x # list[k] /\ \E i \in DOMAIN list : list[i] = x
  BY <1>2, RemoveOnce
<1>4. /\ IsInjective(list')
      /\ \A x : (\E i \in DOMAIN list' : list'[i] = x) <=> x # cur /\ \E i \in DOMAIN list : list[i] = x
  BY <1>1, <1>3
<1>. QED BY <1>4 DEF Listed

LEMMA ListStep ==
  ASSUME TypeOK, InvLoaded, InvList, [Next]_vars
  PROVE  InvList'
<1>. /\ list \in Seq(Bookings) /\ queue \in Seq(Bookings) /\ cur \in Bookings \cup {None}
     /\ rec \in [Bookings -> Record \cup {None}] /\ None \notin Record /\ None \notin Bookings
     /\ pc = "list" => cur # None
     /\ IsInjective(list) /\ IsInjective(queue)
  BY FogAssumption DEF TypeOK, InvLoaded, InvList
<1>1. CASE UNCHANGED <<list, rec, sensor>>
  BY <1>1, ListBeside
<1>2. ASSUME NEW i \in DOMAIN flows, FlowStep(i) PROVE InvList'
  <2>1. \A b \in Bookings : rec'[b] = None => rec[b] = None
    <3>1. CASE rec' = rec
      BY <3>1
    <3>2. CASE /\ flows[i].draft \in Record
               /\ rec' = [rec EXCEPT ![flows[i].booking] = [flows[i].draft EXCEPT !.key = flows[i].key]]
      <4>1. [flows[i].draft EXCEPT !.key = flows[i].key] # None
        <5>1. flows[i].key \in Names \cup {None}
          <6>1. flows \in Seq(Flow)
            BY DEF TypeOK
          <6>2. flows[i] \in Flow
            BY <1>2, <6>1
          <6>. QED BY <6>2 DEF Flow
        <5>2. [flows[i].draft EXCEPT !.key = flows[i].key] \in Record
          BY <3>2, <5>1 DEF Record
        <5>. QED BY <5>2
      <4>. QED BY <3>2, <4>1
    <3>. QED BY <1>2, <3>1, <3>2, FlowMove
  <2>. QED BY <1>2, <2>1, FlowMove, ListBeside
<1>3. CASE Fetch \/ FinishCheck
  BY <1>3, EmptyInjective DEF Fetch, FinishCheck, store, InvList, Listed, ListedHaveRecords, Starting
<1>4. CASE RaiseInCheck \/ Restart
  BY <1>4, EmptyInjective DEF RaiseInCheck, Restart, store, InvList, Listed, ListedHaveRecords, Starting
<1>5. ASSUME NEW b \in Bookings, StoreBooking(b) PROVE InvList'
  <2>1. ~Listed(b) /\ cur' = b /\ pc' = "list" /\ UNCHANGED <<list, queue>>
    BY <1>5 DEF StoreBooking, New
  <2>2. rec'[b] # None /\ \A c \in Bookings \ {b} : rec'[c] = rec[c]
    <3>1. seen[b] \in Slot
      BY <1>5 DEF StoreBooking, New, TypeOK
    <3>2. [host |-> seen[b].host, start |-> seen[b].start, end |-> seen[b].end,
           status |-> 0, key |-> None] \in Record
      BY <3>1 DEF Slot, Record
    <3>. QED BY <1>5, <3>2 DEF StoreBooking
  <2>. QED BY <2>1, <2>2 DEF InvList, Listed, ListedHaveRecords, Starting
<1>6. CASE ListBooking
  <2>1. /\ pc = "list" /\ list' = Append(list, cur) /\ cur' = None /\ pc' = "add"
        /\ UNCHANGED <<rec, queue>> /\ cur \in Bookings /\ ~Listed(cur) /\ rec[cur] # None
    BY <1>6 DEF ListBooking, InvList
  <2>2. /\ DOMAIN list' = DOMAIN list \cup {Len(list) + 1} /\ Len(list) + 1 \notin DOMAIN list
        /\ \A k \in DOMAIN list : list'[k] = list[k]
        /\ list'[Len(list) + 1] = cur
    BY <2>1
  <2>3. \A b : Listed(b)' <=> Listed(b) \/ b = cur
    BY <2>2 DEF Listed
  <2>4. IsInjective(list')
    BY <2>1, <2>2 DEF IsInjective, Listed
  <2>. QED BY <2>1, <2>3, <2>4 DEF InvList, ListedHaveRecords, Starting
<1>7. CASE StartCheck
  <2>1. queue' = list /\ pc' = "check" /\ UNCHANGED <<list, rec, cur>> /\ pc = "add"
    BY <1>7 DEF StartCheck, store
  <2>2. cur = None
    BY <2>1 DEF InvList
  <2>. QED BY <2>1, <2>2 DEF InvList, Listed, ListedHaveRecords, Starting
<1>8. CASE PassBooking
  <2>1. queue # <<>> /\ queue' = Tail(queue) /\ UNCHANGED <<list, rec, cur, pc>> /\ pc = "check"
    BY <1>8 DEF PassBooking, store
  <2>2. /\ IsInjective(queue')
        /\ \A k \in DOMAIN queue' : Listed(queue'[k]) /\ queue'[k] # cur
    BY <2>1, TailFacts DEF InvList
  <2>. QED BY <2>1, <2>2 DEF InvList, Listed, ListedHaveRecords, Starting
<1>9. ASSUME NEW to \in {"start", "end"}, TakeBooking(to) PROVE InvList'
  <2>1. /\ queue # <<>> /\ queue' = Tail(queue) /\ UNCHANGED <<list, rec>> /\ pc' = to
        /\ cur' = Head(queue)
    BY <1>9 DEF TakeBooking, store
  <2>2. /\ IsInjective(queue') /\ Listed(cur')
        /\ \A k \in DOMAIN queue' : Listed(queue'[k]) /\ queue'[k] # cur'
    BY <2>1, TailFacts DEF InvList
  <2>. QED BY <2>1, <2>2 DEF InvList, Listed, ListedHaveRecords, Starting
<1>10. CASE ReadStatus
  BY <1>10 DEF ReadStatus, store, InvList, Listed, ListedHaveRecords, Starting
<1>11. CASE MarkStarted \/ MarkEnded
  <2>1. /\ UNCHANGED <<list, queue, cur>> /\ pc \in {"startSave", "endSave"}
        /\ pc' \in {"startDispatch", "unlist"}
        /\ \E v \in {1, 3} : rec' = [rec EXCEPT ![cur] = [draft EXCEPT !.status = v]]
    BY <1>11 DEF MarkStarted, MarkEnded, SaveStatus
  <2>2. draft \in Record /\ cur \in Bookings
    BY <2>1 DEF TypeOK, InvLoaded, Starting, Ending
  <2>3. \A v \in {1, 3} : [draft EXCEPT !.status = v] # None
    <3>1. \A v \in {1, 3} : [draft EXCEPT !.status = v] \in Record
      BY <2>2 DEF Record
    <3>. QED BY <3>1
  <2>. QED BY <2>1, <2>2, <2>3 DEF InvList, Listed, ListedHaveRecords, Starting
<1>12. CASE DispatchStart \/ DispatchEnd
  <2>1. UNCHANGED <<list, rec, queue>> /\ cur' = None /\ pc' = "check"
    BY <1>12 DEF DispatchStart, DispatchEnd, Dispatch, store
  <2>2. \A k \in DOMAIN queue : queue[k] # None
    OBVIOUS
  <2>. QED BY <2>1, <2>2 DEF InvList, Listed, ListedHaveRecords, Starting
<1>13. CASE Unlist
  <2>1. /\ UNCHANGED <<rec, queue, cur>> /\ pc = "unlist" /\ pc' = "forget"
    BY <1>13 DEF Unlist
  <2>2. IsInjective(list') /\ \A b : Listed(b)' <=> b # cur /\ Listed(b)
    BY <1>13, UnlistFacts
  <2>. QED BY <2>1, <2>2 DEF InvList, ListedHaveRecords, Starting
<1>14. CASE Forget
  <2>1. /\ UNCHANGED <<list, queue, cur>> /\ pc = "forget" /\ pc' = "endDispatch"
        /\ rec' = [rec EXCEPT ![cur] = None]
    BY <1>14 DEF Forget
  <2>. QED BY <2>1 DEF InvList, Listed, ListedHaveRecords, Starting
<1>15. CASE Tick \/ (\E b \in Bookings : ChangeBooking(b)) \/ (\E h \in Hosts : FinishImaging(h))
  BY <1>1, <1>15 DEF Tick, ChangeBooking, FinishImaging, store
<1>16. CASE UNCHANGED vars
  BY <1>1, <1>16 DEF vars, store
<1>. QED BY <1>2, <1>3, <1>4, <1>5, <1>6, <1>7, <1>8, <1>9, <1>10, <1>11, <1>12, <1>13, <1>14,
            <1>15, <1>16 DEF Next, SensorStep, BeginStart, BeginEnd

-----------------------------------------------------------------------------
(* The times of a booking. *)

LEMMA ScheduleEnds == \A b \in Bookings : Schedule[b].end \in Nat /\ Schedule[b] # None
BY FogAssumption DEF Slot

LEMMA TimesInit == Init => InvTimes
BY DEF Init, InvTimes, Times, Nothing, Ending

(* A started booking was started with a status saved for it.               *)
LEMMA TimesFlow ==
  ASSUME IInv, NEW i \in DOMAIN flows, FlowStep(i), NEW b \in Bookings \ moved
  PROVE  Times(b)'
<1>1. /\ UNCHANGED <<now, dash, seen, cur, pc, draft>>
      /\ DOMAIN flows' = DOMAIN flows
      /\ \A j \in DOMAIN flows :
            /\ flows'[j].booking = flows[j].booking
            /\ j # i => flows'[j] = flows[j]
      /\ flows'[i].stage = "save" => /\ flows'[i].draft # None
                                     /\ flows[i].kind = "deploy"
                                     /\ flows'[i].draft = rec[flows[i].booking]
  BY FlowMove DEF IInv, board, sensor
<1>2. Times(b) /\ Once(b)
  BY DEF IInv, InvTimes, InvOnce
<1>3. flows'[i].stage = "save" /\ flows[i].booking = b => rec[b] # None /\ rec[b].status # 0
  <2>1. flows[i].kind = "deploy" /\ flows[i].booking = b => i \in DeployFlows(b)
    BY DEF DeployFlows
  <2>. QED BY <1>1, <1>2, <2>1 DEF Once, Started
<1>4. rec'[b] # None => rec'[b].end = Schedule[b].end
  <2>1. CASE rec' = rec
    BY <1>2, <2>1 DEF Times
  <2>2. CASE /\ flows[i].stage = "save" /\ flows[i].draft \in Record
             /\ rec' = [rec EXCEPT ![flows[i].booking] = [flows[i].draft EXCEPT !.key = flows[i].key]]
    <3>1. [flows[i].draft EXCEPT !.key = flows[i].key].end = flows[i].draft.end
      BY <2>2 DEF Record
    <3>. QED BY <1>2, <2>2, <3>1 DEF Times, IInv, TypeOK
  <2>. QED BY <2>1, <2>2, FlowMove DEF IInv
<1>. QED BY <1>1, <1>2, <1>3, <1>4 DEF Times

LEMMA TimesStep ==
  ASSUME IInv, [Next]_vars, NEW b \in Bookings \ moved, b \notin moved'
  PROVE  Times(b)'
<1>0. /\ Times(b) /\ Schedule[b].end \in Nat /\ Schedule[b] # None /\ now \in Nat
      /\ rec \in [Bookings -> Record \cup {None}] /\ dash \in [Bookings -> Slot \cup {None}]
  BY ScheduleEnds DEF IInv, InvTimes, TypeOK
<1>. USE <1>0
<1>1. ASSUME UNCHANGED <<dash, seen, rec, flows>>, now' \in Nat, now' >= now,
             \/ UNCHANGED <<cur, pc, draft>>
             \/ pc' \notin {"startSave", "endSave"} \cup Ending
             \/ UNCHANGED cur /\ pc \in Ending /\ pc' \in Ending \ {"endSave"}
      PROVE  Times(b)'
  BY <1>1 DEF Times, Ending, IInv, TypeOK
<1>2. ASSUME NEW i \in DOMAIN flows, FlowStep(i) PROVE Times(b)'
  BY <1>2, TimesFlow
<1>3. CASE UNCHANGED vars
  BY <1>1, <1>3 DEF vars, time, board, store, sensor, lab
<1>4. CASE Tick \/ (\E h \in Hosts : FinishImaging(h))
  BY <1>1, <1>4 DEF Tick, FinishImaging, time, board, store, sensor, lab
<1>5. ASSUME NEW c \in Bookings, ChangeBooking(c) PROVE Times(b)'
  <2>1. c # b
    BY <1>5 DEF ChangeBooking
  <2>2. dash'[b] = dash[b]
    BY <1>5, <2>1 DEF ChangeBooking
  <2>. QED BY <1>5, <2>2 DEF ChangeBooking, store, sensor, lab, Times
<1>6. CASE Fetch
  <2>1. seen'[b] \in {None, dash[b]} /\ pc' = "add" /\ UNCHANGED <<dash, rec, flows, cur, draft, now>>
    BY <1>6 DEF Fetch, time, board, store, lab
  <2>. QED BY <2>1 DEF Times, Ending
<1>7. ASSUME NEW c \in Bookings, StoreBooking(c) PROVE Times(b)'
  <2>1. c = b => seen[b] = Schedule[b]
    BY <1>7 DEF StoreBooking, New, Times
  <2>2. rec'[b] # None => rec'[b].end = Schedule[b].end
    BY <1>7, <2>1 DEF StoreBooking, Times
  <2>. QED BY <1>7, <2>2 DEF StoreBooking, time, board, lab, Times, Ending
<1>8. CASE ListBooking \/ PassBooking \/ RaiseInCheck \/ FinishCheck
  <2>1. pc' \in {"add", "check", "idle"} /\ UNCHANGED <<dash, seen, rec, flows, now>>
    BY <1>8 DEF ListBooking, PassBooking, RaiseInCheck, FinishCheck, time, board, store, lab
  <2>. QED BY <1>1, <2>1 DEF Ending
<1>9. CASE StartCheck \/ Restart
  <2>1. pc' \in {"check", "idle"} /\ UNCHANGED <<dash, rec, flows, now>> /\ seen'[b] = None
    BY <1>9 DEF StartCheck, Restart, Nothing, time, board, store, lab
  <2>. QED BY <2>1 DEF Times, Ending
<1>10. CASE BeginStart \/ Unlist
  BY <1>1, <1>10 DEF BeginStart, TakeBooking, Unlist, Ending, time, board, store, lab
<1>11. CASE BeginEnd
  <2>1. /\ UNCHANGED <<dash, seen, rec, flows, now>> /\ pc' = "end" /\ copy' # None /\ copy' = rec[cur']
        /\ now > copy'.end
    BY <1>11 DEF BeginEnd, TakeBooking, Over, time, board, store, lab
  <2>. QED BY <2>1 DEF Times, Ending
<1>12. CASE ReadStatus
  <2>1. /\ UNCHANGED <<dash, seen, rec, flows, now, cur>> /\ draft' = rec[cur] /\ rec[cur] # None
        /\ pc' \in Ending => pc \in Ending
    BY <1>12 DEF ReadStatus, time, board, store, lab, Ending
  <2>. QED BY <2>1 DEF Times
<1>13. CASE MarkStarted \/ MarkEnded
  <2>1. PICK v \in {1, 3} : rec' = [rec EXCEPT ![cur] = [draft EXCEPT !.status = v]]
    BY <1>13 DEF MarkStarted, MarkEnded, SaveStatus
  <2>2. /\ UNCHANGED <<dash, seen, flows, now, cur>> /\ pc \in {"startSave", "endSave"}
        /\ pc' \in {"startDispatch", "unlist"} /\ (pc' \in Ending => pc \in Ending)
    BY <1>13 DEF MarkStarted, MarkEnded, SaveStatus, time, board, lab, Ending
  <2>3. draft \in Record
    BY <2>2 DEF IInv, TypeOK, InvLoaded, Starting, Ending
  <2>4. [draft EXCEPT !.status = v].end = draft.end
    BY <2>3 DEF Record
  <2>5. rec'[b] # None => rec'[b].end = Schedule[b].end
    BY <2>1, <2>2, <2>4 DEF Times
  <2>. QED BY <2>2, <2>5 DEF Times
<1>14. CASE DispatchStart \/ DispatchEnd
  <2>1. PICK kind \in {"deploy", "clean"}, key \in Names \cup {None, copy.key} : Dispatch(kind, key)
    BY <1>14 DEF DispatchStart, DispatchEnd
  <2>2. \A j \in DOMAIN flows' : flows'[j].stage = "image" \/ (j \in DOMAIN flows /\ flows'[j] = flows[j])
    BY <2>1, DispatchSets DEF IInv
  <2>3. pc' = "check" /\ UNCHANGED <<dash, seen, rec, now>>
    BY <2>1 DEF Dispatch, time, board, store
  <2>. QED BY <2>2, <2>3 DEF Times, Ending
<1>15. CASE Forget
  <2>1. /\ UNCHANGED <<dash, seen, flows, now, cur>> /\ pc = "forget" /\ pc' = "endDispatch"
        /\ rec' = [rec EXCEPT ![cur] = None]
    BY <1>15 DEF Forget, time, board, lab
  <2>. QED BY <2>1 DEF Times, Ending
<1>. QED BY <1>2, <1>3, <1>4, <1>5, <1>6, <1>7, <1>8, <1>9, <1>10, <1>11, <1>12, <1>13, <1>14,
            <1>15 DEF Next, SensorStep
-----------------------------------------------------------------------------
(* One deployment and one clean workflow for a booking. *)

LEMMA OnceInit == Init => InvOnce
<1>1. ASSUME Init, NEW b PROVE DeployFlows(b) = {} /\ CleanFlows(b) = {}
  BY <1>1 DEF Init, DeployFlows, CleanFlows
<1>. QED BY <1>1 DEF Init, InvOnce, Once, Started, Ended, Starting, Ending

(* A step that dispatches nothing.                                         *)
LEMMA OnceQuiet ==
  ASSUME NEW b, Once(b), now \in Nat, now' \in Nat, now' >= now, Schedule[b].end \in Nat,
         DeployFlows(b)' = DeployFlows(b), CleanFlows(b)' = CleanFlows(b),
         Listed(b)' <=> Listed(b),
         rec'[b] \in {rec[b], None} \/ rec'[b].status # 0,
         \/ UNCHANGED <<pc, cur>>
         \/ pc' \in {"idle", "add", "check"}
         \/ cur' # b
         \/ cur = b /\ pc \in {"start", "end"} /\ <<pc, pc'>> \in {<<"start", "startSave">>, <<"end", "endSave">>}
         \/ cur = b /\ pc = "endSave" /\ pc' = "unlist"
         \/ cur = b /\ pc = "forget" /\ pc' = "endDispatch"
  PROVE  Once(b)'
BY DEF Once, Started, Ended, Starting, Ending

LEMMA OnceStep ==
  ASSUME IInv, [Next]_vars, NEW b \in Bookings \ moved, b \notin moved'
  PROVE  Once(b)'
<1>0. /\ Times(b) /\ Once(b) /\ Schedule[b].end \in Nat /\ Schedule[b] # None /\ now \in Nat
      /\ rec \in [Bookings -> Record \cup {None}] /\ None \notin Bookings
      /\ TypeOK /\ InvLoaded /\ InvList
  BY ScheduleEnds, FogAssumption DEF IInv, InvTimes, InvOnce, TypeOK
<1>. USE <1>0
<1>1. ASSUME flows' = flows PROVE DeployFlows(b)' = DeployFlows(b) /\ CleanFlows(b)' = CleanFlows(b)
  BY <1>1 DEF DeployFlows, CleanFlows
<1>2. ASSUME list' = list PROVE Listed(b)' <=> Listed(b)
  BY <1>2 DEF Listed
<1>3. ASSUME UNCHANGED <<list, rec, flows>>, now' \in Nat, now' >= now,
             UNCHANGED <<pc, cur>> \/ pc' \in {"idle", "add", "check"}
      PROVE  Once(b)'
  BY <1>1, <1>2, <1>3, OnceQuiet
<1>4. CASE UNCHANGED vars
  BY <1>3, <1>4 DEF vars, time, board, store, sensor, lab
<1>5. CASE Tick \/ (\E h \in Hosts : FinishImaging(h)) \/ (\E c \in Bookings : ChangeBooking(c))
  BY <1>3, <1>5 DEF Tick, FinishImaging, ChangeBooking, time, board, store, sensor, lab
<1>6. CASE Fetch \/ StartCheck \/ PassBooking \/ RaiseInCheck \/ FinishCheck \/ Restart
  BY <1>3, <1>6 DEF Fetch, StartCheck, PassBooking, RaiseInCheck, FinishCheck, Restart, time, board,
     store, lab
<1>7. ASSUME NEW i \in DOMAIN flows, FlowStep(i) PROVE Once(b)'
  <2>1. /\ UNCHANGED <<now, list, pc, cur>>
        /\ DeployFlows(b)' = DeployFlows(b) /\ CleanFlows(b)' = CleanFlows(b)
    BY <1>7, FlowMove, FlowSets DEF sensor
  <2>2. rec'[b] = rec[b] \/ rec'[b].status # 0
    <3>1. CASE rec' = rec
      BY <3>1
    <3>2. CASE /\ flows[i].stage = "save" /\ flows[i].draft \in Record
               /\ rec' = [rec EXCEPT ![flows[i].booking] = [flows[i].draft EXCEPT !.key = flows[i].key]]
      <4>1. [flows[i].draft EXCEPT !.key = flows[i].key].status = flows[i].draft.status
        BY <3>2 DEF Record
      <4>. QED BY <3>2, <4>1 DEF Times
    <3>. QED BY <1>7, <3>1, <3>2, FlowMove
  <2>. QED BY <1>2, <2>1, <2>2, OnceQuiet
<1>8. ASSUME NEW c \in Bookings, StoreBooking(c) PROVE Once(b)'
  <2>1. UNCHANGED <<now, list, flows>> /\ cur' = c /\ pc' = "list"
    BY <1>8 DEF StoreBooking, time, lab
  <2>2. CASE c # b
    <3>1. rec'[b] = rec[b]
      BY <1>8, <2>2 DEF StoreBooking
    <3>. QED BY <1>1, <1>2, <2>1, <2>2, <3>1, OnceQuiet
  <2>3. CASE c = b
    <3>1. ~Listed(b) /\ ~(now > Schedule[b].end)
      BY <1>8, <2>3 DEF StoreBooking, New, Times
    <3>2. DeployFlows(b) = {} /\ CleanFlows(b) = {}
      BY <3>1 DEF Once, Started, Ended
    <3>. QED BY <1>1, <2>1, <3>2 DEF Once, Started, Ended, Starting
  <2>. QED BY <2>2, <2>3
<1>9. CASE ListBooking
  <2>1. /\ UNCHANGED <<now, rec, flows>> /\ pc = "list" /\ pc' = "add"
        /\ list' = Append(list, cur) /\ cur \in Bookings /\ list \in Seq(Bookings)
    BY <1>9 DEF ListBooking, time, board, lab, InvLoaded, TypeOK
  <2>2. /\ DOMAIN list' = DOMAIN list \cup {Len(list) + 1} /\ Len(list) + 1 \notin DOMAIN list
        /\ \A k \in DOMAIN list : list'[k] = list[k]
        /\ list'[Len(list) + 1] = cur
    BY <2>1
  <2>3. Listed(b)' <=> Listed(b) \/ b = cur
    BY <2>2 DEF Listed
  <2>4. CASE b # cur
    BY <1>1, <2>1, <2>3, <2>4, OnceQuiet
  <2>5. CASE b = cur
    <3>1. CleanFlows(b) = {}
      BY <2>1, <2>5 DEF Once
    <3>. QED BY <1>1, <2>1, <2>3, <2>5, <3>1 DEF Once, Started, Ended, Starting, Ending
  <2>. QED BY <2>4, <2>5
<1>10. CASE BeginStart
  <2>1. /\ UNCHANGED <<now, list, rec, flows>> /\ pc' = "start" /\ rec[cur'] # None
        /\ cur' \in Bookings /\ rec[cur'].status < 1
    BY <1>10 DEF BeginStart, TakeBooking, Due, time, board, store, lab, TypeOK
  <2>2. CASE cur' # b
    BY <1>1, <1>2, <2>1, <2>2, OnceQuiet
  <2>3. CASE cur' = b
    <3>1. rec[b].status = 0
      BY <2>1, <2>3 DEF Record
    <3>2. DeployFlows(b) = {}
      BY <2>1, <2>3, <3>1 DEF Once, Started
    <3>. QED BY <1>1, <1>2, <2>1, <2>3, <3>2 DEF Once, Started, Ended, Starting, Ending
  <2>. QED BY <2>2, <2>3
<1>11. CASE BeginEnd
  <2>1. /\ UNCHANGED <<now, list, rec, flows>> /\ pc' = "end" /\ cur' = Head(queue) /\ queue # <<>>
    BY <1>11 DEF BeginEnd, TakeBooking, time, board, store, lab
  <2>2. CASE cur' # b
    BY <1>1, <1>2, <2>1, <2>2, OnceQuiet
  <2>3. CASE cur' = b
    <3>1. Listed(b)
      <4>1. 1 \in DOMAIN queue /\ queue[1] = b
        BY <2>1, <2>3 DEF TypeOK
      <4>. QED BY <4>1 DEF InvList
    <3>2. CleanFlows(b) = {}
      BY <3>1 DEF Once, Ended
    <3>. QED BY <1>1, <1>2, <2>1, <2>3, <3>1, <3>2 DEF Once, Started, Ended, Starting, Ending
  <2>. QED BY <2>2, <2>3
<1>12. CASE ReadStatus
  <2>1. /\ UNCHANGED <<now, list, rec, flows, cur>>
        /\ <<pc, pc'>> \in {<<"start", "startSave">>, <<"end", "endSave">>}
    BY <1>12 DEF ReadStatus, time, board, store, lab
  <2>. QED BY <1>1, <1>2, <2>1, OnceQuiet
<1>13. CASE MarkStarted
  <2>1. /\ UNCHANGED <<now, list, flows, cur>> /\ pc = "startSave" /\ pc' = "startDispatch"
        /\ rec' = [rec EXCEPT ![cur] = [draft EXCEPT !.status = 1]]
        /\ Listed(cur) /\ draft \in Record /\ cur \in Bookings
    BY <1>13 DEF MarkStarted, SaveStatus, time, board, lab, InvList, InvLoaded, TypeOK, Starting
  <2>2. CASE cur # b
    <3>1. rec'[b] = rec[b]
      BY <2>1, <2>2
    <3>. QED BY <1>1, <1>2, <2>1, <2>2, <3>1, OnceQuiet
  <2>3. CASE cur = b
    <3>1. rec'[b].status = 1
      BY <2>1, <2>3 DEF Record
    <3>2. CleanFlows(b) = {}
      BY <2>1, <2>3 DEF Once, Ended
    <3>. QED BY <1>1, <1>2, <2>1, <2>3, <3>1, <3>2 DEF Once, Started, Ended, Starting, Ending
  <2>. QED BY <2>2, <2>3
<1>14. CASE MarkEnded
  <2>1. /\ UNCHANGED <<now, list, flows, cur>> /\ pc = "endSave" /\ pc' = "unlist"
        /\ rec' = [rec EXCEPT ![cur] = [draft EXCEPT !.status = 3]]
        /\ draft \in Record /\ cur \in Bookings
    BY <1>14 DEF MarkEnded, SaveStatus, time, board, lab, InvLoaded, TypeOK, Ending
  <2>2. rec'[b] = rec[b] \/ rec'[b].status # 0
    BY <2>1 DEF Record
  <2>. QED BY <1>1, <1>2, <2>1, <2>2, OnceQuiet
<1>15. CASE Unlist
  <2>1. /\ UNCHANGED <<now, rec, flows, cur>> /\ pc = "unlist" /\ pc' = "forget"
        /\ Listed(b)' <=> b # cur /\ Listed(b)
    BY <1>15, UnlistFacts DEF Unlist, time, board, lab
  <2>2. CASE cur # b
    BY <1>1, <2>1, <2>2, OnceQuiet
  <2>3. CASE cur = b
    <3>1. now > Schedule[b].end /\ CleanFlows(b) = {}
      BY <2>1, <2>3 DEF Times, Once, Ending
    <3>. QED BY <1>1, <2>1, <2>3, <3>1 DEF Once, Started, Ended, Starting, Ending
  <2>. QED BY <2>2, <2>3
<1>16. CASE Forget
  <2>1. /\ UNCHANGED <<now, list, flows, cur>> /\ pc = "forget" /\ pc' = "endDispatch"
        /\ rec'[b] \in {rec[b], None}
    BY <1>16 DEF Forget, time, board, lab
  <2>. QED BY <1>1, <1>2, <2>1, OnceQuiet
<1>17. CASE DispatchStart
  <2>1. /\ DeployFlows(b)' = DeployFlows(b) \cup IF b = cur THEN {Len(flows) + 1} ELSE {}
        /\ CleanFlows(b)' = CleanFlows(b)
    BY <1>17, DispatchSets DEF DispatchStart
  <2>2. UNCHANGED <<now, list, rec>> /\ pc' = "check" /\ pc = "startDispatch"
    BY <1>17 DEF DispatchStart, Dispatch, time, store
  <2>. QED BY <1>2, <2>1, <2>2 DEF Once, Started, Ended, Starting, Ending
<1>18. CASE DispatchEnd
  <2>1. /\ CleanFlows(b)' = CleanFlows(b) \cup IF b = cur THEN {Len(flows) + 1} ELSE {}
        /\ DeployFlows(b)' = DeployFlows(b)
    BY <1>18, DispatchSets DEF DispatchEnd
  <2>2. UNCHANGED <<now, list, rec>> /\ pc' = "check" /\ pc = "endDispatch"
    BY <1>18 DEF DispatchEnd, Dispatch, time, store
  <2>. QED BY <1>2, <2>1, <2>2 DEF Once, Started, Ended, Starting, Ending
<1>. QED BY <1>4, <1>5, <1>6, <1>7, <1>8, <1>9, <1>10, <1>11, <1>12, <1>13, <1>14, <1>15, <1>16,
            <1>17, <1>18 DEF Next, SensorStep

-----------------------------------------------------------------------------
(* The results. *)

LEMMA MovedGrows == [Next]_vars => moved \subseteq moved'
BY FlowMove DEF vars, Next, SensorStep, FlowStep, Tick, ChangeBooking, FinishImaging, Fetch, StoreBooking,
   ListBooking, StartCheck, PassBooking, BeginStart, BeginEnd, TakeBooking, RaiseInCheck, FinishCheck,
   ReadStatus, MarkStarted, MarkEnded, SaveStatus, DispatchStart, DispatchEnd, Dispatch, Unlist, Forget,
   Restart, board, StartImaging, StartImagingTrouble, FindTask, FindNoTask, WatchTask, WatchOutage,
   Install, MakeUser, MakeUserNoName, SaveUser, Revoke, FailFlow

(* The invariant holds of every behaviour of the sensor, the workflows, the *)
(* users and the machines.                                                  *)
THEOREM FogInvariant == Spec => []IInv
<1>1. Init => IInv
  <2>1. Init => InvLoaded
    BY DEF Init, InvLoaded, Starting, Ending
  <2>. QED BY <2>1, TypeInit, ListInit, TimesInit, OnceInit DEF IInv
<1>2. IInv /\ [Next]_vars => IInv'
  <2>. SUFFICES ASSUME IInv, [Next]_vars PROVE IInv'
    OBVIOUS
  <2>1. TypeOK' /\ InvLoaded' /\ InvList'
    BY TypeStep, LoadedStep, ListStep DEF IInv
  <2>2. InvTimes'
    BY TimesStep, MovedGrows DEF InvTimes
  <2>3. InvOnce'
    BY OnceStep, MovedGrows DEF InvOnce
  <2>. QED BY <2>1, <2>2, <2>3 DEF IInv
<1>. QED BY <1>1, <1>2, PTL DEF Spec

(* Type correctness.                                                       *)
THEOREM FogTypes == Spec => []TypeOK
<1>1. IInv => TypeOK
  BY DEF IInv
<1>. QED BY <1>1, FogInvariant, PTL

(* An id in the list has its record at every step of AddBooking and        *)
(* removeBooking, wherever the sensor dies.                                *)
THEOREM RecordsOfListed == Spec => []ListedHaveRecords
<1>1. IInv => ListedHaveRecords
  BY DEF IInv, InvList
<1>. QED BY <1>1, FogInvariant, PTL

(* checkBookings starts a booking once and ends it once, for any number of *)
(* polls and crashes.                                                      *)
THEOREM FlowsOnce == Spec => []OneFlowEach
<1>1. IInv => OneFlowEach
  BY DEF IInv, InvOnce, Once, OneFlowEach
<1>. QED BY <1>1, FogInvariant, PTL

-----------------------------------------------------------------------------
(* The users of the VPN. *)

(* Every step a workflow takes, and what it does to records and users.     *)
Moves == {<<"image", "find">>, <<"find", "watch">>, <<"find", "failed">>,
          <<"watch", "install">>, <<"watch", "revoke">>, <<"install", "user">>,
          <<"user", "save">>, <<"user", "failed">>, <<"save", "done">>,
          <<"save", "failed">>, <<"revoke", "done">>}

LEMMA FlowShape ==
  ASSUME TypeOK, InvLoaded, NEW i \in DOMAIN flows, FlowStep(i)
  PROVE  /\ <<flows[i].stage, flows'[i].stage>> \in Moves
         /\ flows'[i].kind = flows[i].kind /\ flows'[i].booking = flows[i].booking
         /\ flows'[i].host = flows[i].host
         /\ flows[i].stage # "user" => flows'[i].key = flows[i].key
         /\ flows[i].stage # "find" => flows'[i].task = flows[i].task
         /\ flows[i].blind => flows'[i].blind
<1>1. flows \in Seq(Flow) /\ flows[i] \in Flow
  <2>1. flows \in Seq(Flow)
    BY DEF TypeOK
  <2>. QED BY <2>1
<1>2. ASSUME NEW to, Step(i, to), <<flows[i].stage, to>> \in Moves
      PROVE  /\ <<flows[i].stage, flows'[i].stage>> \in Moves
             /\ flows'[i].kind = flows[i].kind /\ flows'[i].booking = flows[i].booking
             /\ flows'[i].host = flows[i].host
             /\ flows'[i].key = flows[i].key
             /\ flows'[i].task = flows[i].task
             /\ flows'[i].blind = flows[i].blind
  <2>1. flows'[i] = [flows[i] EXCEPT !.stage = to]
    BY <1>1, <1>2 DEF Step
  <2>. QED BY <1>1, <1>2, <2>1 DEF Flow
<1>3. CASE StartImaging(i) \/ StartImagingTrouble(i)
  BY <1>2, <1>3 DEF StartImaging, StartImagingTrouble, Moves
<1>4. CASE FindNoTask(i)
  BY <1>2, <1>4 DEF FindNoTask, Moves
<1>5. CASE Install(i) \/ MakeUserNoName(i) \/ Revoke(i)
  BY <1>2, <1>5 DEF Install, MakeUserNoName, Revoke, Moves
<1>6. CASE WatchTask(i)
  BY <1>2, <1>6 DEF WatchTask, AfterImaging, Moves
<1>7. CASE FindTask(i)
  <2>1. flows'[i] = [flows[i] EXCEPT !.stage = "watch", !.task = task[Mine(i)]]
        /\ flows[i].stage = "find"
    BY <1>1, <1>7 DEF FindTask
  <2>. QED BY <1>1, <2>1 DEF Flow, Moves
<1>8. CASE WatchOutage(i)
  <2>1. flows'[i] = [flows[i] EXCEPT !.stage = AfterImaging(i), !.blind = TRUE]
        /\ flows[i].stage = "watch" /\ AfterImaging(i) \in {"install", "revoke"}
    BY <1>1, <1>8 DEF WatchOutage, AfterImaging
  <2>. QED BY <1>1, <2>1 DEF Flow, Moves
<1>9. CASE MakeUser(i)
  <2>1. PICK n \in Names :
          flows'[i] = [flows[i] EXCEPT !.key = n, !.draft = rec[flows[i].booking],
                         !.stage = IF rec[flows[i].booking] = None THEN "failed" ELSE "save"]
    BY <1>1, <1>9 DEF MakeUser, FreeNames
  <2>2. flows[i].stage = "user"
    BY <1>9 DEF MakeUser
  <2>. QED BY <1>1, <2>1, <2>2 DEF Flow, Moves
<1>10. CASE SaveUser(i)
  <2>1. flows'[i] = [flows[i] EXCEPT !.stage = "done", !.draft = None] /\ flows[i].stage = "save"
    BY <1>1, <1>10 DEF SaveUser
  <2>. QED BY <1>1, <2>1 DEF Flow, Moves
<1>11. CASE FailFlow(i)
  <2>1. flows'[i] = [flows[i] EXCEPT !.stage = "failed", !.draft = None] /\ flows[i].stage = "save"
    BY <1>1, <1>11 DEF FailFlow
  <2>. QED BY <1>1, <2>1 DEF Flow, Moves
<1>. QED BY <1>3, <1>4, <1>5, <1>6, <1>7, <1>8, <1>9, <1>10, <1>11 DEF FlowStep

LEMMA FlowWrites ==
  ASSUME TypeOK, InvLoaded, NEW i \in DOMAIN flows, FlowStep(i)
  PROVE  /\ \/ rec' = rec /\ <<flows[i].stage, flows'[i].stage>> # <<"save", "done">>
            \/ /\ flows[i].stage = "save" /\ flows'[i].stage = "done"
               /\ flows[i].kind = "deploy" /\ flows[i].draft \in Record
               /\ rec' = [rec EXCEPT ![flows[i].booking] =
                                 [flows[i].draft EXCEPT !.key = flows[i].key]]
         /\ \/ users' = users /\ flows[i].stage # "revoke"
            \/ /\ flows[i].stage = "user" /\ flows[i].kind = "deploy"
               /\ flows'[i].stage \in {"save", "failed"}
               /\ \E n \in Names : users' = [users EXCEPT ![n] = i] /\ flows'[i].key = n
            \/ /\ flows[i].stage = "revoke" /\ flows'[i].stage = "done"
               /\ users' = [n \in Names |-> IF n = flows[i].key THEN 0 ELSE users[n]]
<1>1. flows \in Seq(Flow) /\ flows[i] \in Flow
  <2>1. flows \in Seq(Flow)
    BY DEF TypeOK
  <2>. QED BY <2>1
<1>2. CASE \/ StartImaging(i) \/ StartImagingTrouble(i) \/ FindTask(i) \/ FindNoTask(i)
           \/ WatchTask(i) \/ WatchOutage(i) \/ Install(i) \/ MakeUserNoName(i)
  <2>1. flows[i].stage \notin {"save", "revoke"} /\ rec' = rec /\ users' = users
    BY <1>2 DEF StartImaging, StartImagingTrouble, FindTask, FindNoTask, WatchTask, WatchOutage,
       Install, MakeUserNoName, store
  <2>. QED BY <2>1
<1>3. CASE MakeUser(i)
  <2>1. PICK n \in Names :
          /\ flows'[i] = [flows[i] EXCEPT !.key = n, !.draft = rec[flows[i].booking],
                           !.stage = IF rec[flows[i].booking] = None THEN "failed" ELSE "save"]
          /\ users' = [users EXCEPT ![n] = i]
    BY <1>1, <1>3 DEF MakeUser, FreeNames, AddUser
  <2>2. flows[i].stage = "user" /\ flows[i].kind = "deploy" /\ rec' = rec
    BY <1>3 DEF MakeUser, InvLoaded, store
  <2>3. flows'[i].key = n /\ flows'[i].stage \in {"save", "failed"}
    BY <1>1, <2>1 DEF Flow
  <2>. QED BY <2>1, <2>2, <2>3
<1>4. CASE SaveUser(i)
  <2>1. flows'[i] = [flows[i] EXCEPT !.stage = "done", !.draft = None] /\ flows[i].stage = "save"
        /\ rec' = [rec EXCEPT ![flows[i].booking] = [flows[i].draft EXCEPT !.key = flows[i].key]]
        /\ users' = users
    BY <1>1, <1>4 DEF SaveUser
  <2>2. flows[i].kind = "deploy" /\ flows[i].draft \in Record
    BY <1>1, <2>1 DEF InvLoaded, Flow
  <2>3. flows'[i].stage = "done"
    BY <1>1, <2>1 DEF Flow
  <2>. QED BY <2>1, <2>2, <2>3
<1>5. CASE FailFlow(i)
  <2>1. flows'[i] = [flows[i] EXCEPT !.stage = "failed", !.draft = None] /\ flows[i].stage = "save"
        /\ rec' = rec /\ users' = users
    BY <1>1, <1>5 DEF FailFlow, store
  <2>2. flows'[i].stage = "failed"
    BY <1>1, <2>1 DEF Flow
  <2>. QED BY <2>1, <2>2
<1>6. CASE Revoke(i)
  <2>1. flows'[i] = [flows[i] EXCEPT !.stage = "done"] /\ flows[i].stage = "revoke"
        /\ rec' = rec
        /\ users' = [n \in Names |-> IF n = flows[i].key THEN 0 ELSE users[n]]
    BY <1>1, <1>6 DEF Revoke, Step, store
  <2>2. flows'[i].stage = "done"
    BY <1>1, <2>1 DEF Flow
  <2>. QED BY <2>1, <2>2
<1>. QED BY <1>2, <1>3, <1>4, <1>5, <1>6 DEF FlowStep

(* A running deployment of the booking is where its step puts it.          *)
LEMMA DeployingFlow ==
  ASSUME TypeOK, InvLoaded, NEW i \in DOMAIN flows, FlowStep(i), NEW b
  PROVE  /\ Deploying(b)' \subseteq Deploying(b)
         /\ flows[i].kind = "deploy" /\ flows[i].booking = b => i \in Deploying(b)
         /\ flows'[i].stage \in {"done", "failed"} => i \notin Deploying(b)'
<1>1. <<flows[i].stage, flows'[i].stage>> \in Moves
  BY FlowShape
<1>2. Running(flows[i])
  BY <1>1 DEF Moves, Running
<1>3. /\ DeployFlows(b)' = DeployFlows(b)
      /\ \A j \in DOMAIN flows : j # i => flows'[j] = flows[j]
  BY FlowMove, FlowSets
<1>. QED BY <1>2, <1>3 DEF Deploying, DeployFlows, Running

LEMMA DeployedFlow ==
  ASSUME UInv, NEW i \in DOMAIN flows, FlowStep(i), NEW b \in Bookings \ overrun
  PROVE  Deployed(b)' /\ Keyed(b)'
<1>0. Deployed(b) /\ Keyed(b) /\ TypeOK /\ InvLoaded /\ rec \in [Bookings -> Record \cup {None}]
  BY DEF UInv, InvDeployed, InvKeyed, IInv, TypeOK
<1>1. /\ UNCHANGED <<list, pc, cur, copy, draft>>
      /\ DOMAIN flows' = DOMAIN flows
      /\ \A j \in DOMAIN flows : j # i => flows'[j] = flows[j]
      /\ flows'[i].stage = "save" => flows'[i].draft = rec[flows[i].booking]
                                     /\ flows[i].stage = "user"
  BY <1>0, FlowMove DEF sensor
<1>2. /\ Deploying(b)' \subseteq Deploying(b)
      /\ flows[i].kind = "deploy" /\ flows[i].booking = b => i \in Deploying(b)
      /\ flows'[i].stage \in {"done", "failed"} => i \notin Deploying(b)'
  BY <1>0, DeployingFlow
<1>3. Listed(b)' <=> Listed(b)
  BY <1>1 DEF Listed
<1>4. CASE rec'[b] = rec[b]
  <2>1. \A j \in Deploying(b)' : flows'[j].stage = "save" => flows'[j].draft = rec[b]
    <3>1. i \in Deploying(b) => flows[i].booking = b
      BY DEF Deploying, DeployFlows
    <3>. QED BY <1>0, <1>1, <1>2, <3>1 DEF Deployed, Deploying, DeployFlows
  <2>2. Deployed(b)'
    BY <1>0, <1>1, <1>2, <1>3, <1>4, <2>1 DEF Deployed
  <2>. QED BY <1>0, <1>1, <1>3, <1>4, <2>2 DEF Keyed
<1>5. CASE rec'[b] # rec[b]
  <2>1. /\ flows[i].stage = "save" /\ flows'[i].stage = "done" /\ flows[i].kind = "deploy"
        /\ flows[i].draft \in Record /\ flows[i].booking = b
        /\ rec'[b] = [flows[i].draft EXCEPT !.key = flows[i].key]
    BY <1>0, <1>5, FlowWrites
  <2>2. i \in Deploying(b) /\ i \notin Deploying(b)'
    BY <1>2, <2>1
  <2>3. Deploying(b)' = {}
    BY <1>0, <1>2, <2>2 DEF Deployed
  <2>4. rec[b] = flows[i].draft /\ rec[b].status # 0
        /\ ~(cur = b /\ pc \in {"list"} \cup Starting \cup Ending)
    BY <1>0, <2>1, <2>2 DEF Deployed
  <2>5. rec'[b].status = rec[b].status
    BY <2>1, <2>4 DEF Record
  <2>6. Deployed(b)'
    BY <2>3 DEF Deployed
  <2>7. Keyed(b)'
    BY <1>1, <2>4, <2>5 DEF Keyed, Starting, Ending
  <2>. QED BY <2>6, <2>7
<1>. QED BY <1>4, <1>5

(* The sensor is at work on another booking, or none of this one runs.     *)
LEMMA DeployedQuiet ==
  ASSUME NEW b, Deployed(b), flows' = flows,
         \/ Deploying(b) = {}
         \/ /\ Listed(b) => Listed(b)'
            /\ rec'[b] = rec[b]
            /\ cur' = b /\ pc' \in {"list"} \cup Starting \cup Ending
                  => cur = b /\ pc \in {"list"} \cup Starting \cup Ending
  PROVE  Deployed(b)'
<1>1. Deploying(b)' = Deploying(b)
  BY DEF Deploying, DeployFlows
<1>. QED BY <1>1 DEF Deployed

LEMMA KeyedQuiet ==
  ASSUME NEW b, Keyed(b), rec'[b] = rec[b], Listed(b)' => Listed(b),
         \/ UNCHANGED <<pc, cur, copy, draft>>
         \/ pc' \in {"idle", "add", "check"}
         \/ cur' # b
  PROVE  Keyed(b)'
BY DEF Keyed, Starting

LEMMA DeployedSensor ==
  ASSUME UInv, NEW b \in Bookings, b \notin overrun',
         \/ Tick \/ (\E c \in Bookings : ChangeBooking(c)) \/ (\E h \in Hosts : FinishImaging(h))
         \/ SensorStep \/ Restart
  PROVE  Deployed(b)' /\ Keyed(b)'
<1>0. /\ b \notin overrun
      /\ TypeOK /\ InvLoaded /\ InvList
      /\ rec \in [Bookings -> Record \cup {None}] /\ None \notin Bookings
  <2>1. b \notin overrun
    BY DEF SensorStep, Tick, ChangeBooking, FinishImaging, Fetch, StoreBooking, ListBooking,
       StartCheck, PassBooking, BeginStart, BeginEnd, TakeBooking, NoteOverrun, RaiseInCheck,
       FinishCheck, ReadStatus, MarkStarted, MarkEnded, SaveStatus, DispatchStart, DispatchEnd,
       Dispatch, Unlist, Forget, Restart, losses
  <2>. QED BY <2>1, FogAssumption DEF UInv, IInv, TypeOK
<1>a. Deployed(b) /\ Keyed(b)
  BY <1>0 DEF UInv, InvDeployed, InvKeyed
<1>. USE <1>0, <1>a
<1>1. ASSUME list' = list PROVE Listed(b)' <=> Listed(b)
  BY <1>1 DEF Listed
<1>2. ASSUME cur = b, pc \in {"list"} \cup Starting \cup Ending PROVE Deploying(b) = {}
  BY <1>2 DEF Deployed
<1>3. ASSUME UNCHANGED <<list, rec, flows>>,
             UNCHANGED <<pc, cur, copy, draft>> \/ pc' \in {"idle", "add", "check"}
      PROVE  Deployed(b)' /\ Keyed(b)'
  <2>1. Listed(b)' <=> Listed(b)
    BY <1>1, <1>3
  <2>2. Deployed(b)'
    BY <1>3, <2>1, DeployedQuiet DEF Starting, Ending
  <2>. QED BY <1>3, <2>1, <2>2, KeyedQuiet
<1>4. CASE Tick \/ (\E h \in Hosts : FinishImaging(h)) \/ (\E c \in Bookings : ChangeBooking(c))
  BY <1>3, <1>4 DEF Tick, FinishImaging, ChangeBooking, store, sensor, lab
<1>5. CASE Fetch \/ StartCheck \/ PassBooking \/ RaiseInCheck \/ FinishCheck \/ Restart
  BY <1>3, <1>5 DEF Fetch, StartCheck, PassBooking, RaiseInCheck, FinishCheck, Restart, store, lab
<1>6. ASSUME NEW c \in Bookings, StoreBooking(c) PROVE Deployed(b)' /\ Keyed(b)'
  <2>1. UNCHANGED <<list, flows, copy, draft>> /\ cur' = c /\ pc' = "list" /\ ~Listed(c)
    BY <1>6 DEF StoreBooking, New, lab
  <2>2. CASE c # b
    <3>1. rec'[b] = rec[b]
      BY <1>6, <2>2 DEF StoreBooking
    <3>. QED BY <1>1, <2>1, <2>2, <3>1, DeployedQuiet, KeyedQuiet
  <2>3. CASE c = b
    <3>1. Deploying(b) = {}
      BY <2>1, <2>3 DEF Deployed
    <3>2. rec'[b].key = None
      BY <1>6, <2>3 DEF StoreBooking
    <3>3. Keyed(b)'
      BY <1>1, <2>1, <3>2 DEF Keyed, Starting
    <3>. QED BY <2>1, <3>1, <3>3, DeployedQuiet
  <2>. QED BY <2>2, <2>3
<1>7. CASE ListBooking
  <2>1. /\ UNCHANGED <<rec, flows, copy, draft>> /\ pc = "list" /\ pc' = "add"
        /\ list' = Append(list, cur) /\ cur \in Bookings /\ list \in Seq(Bookings)
    BY <1>7 DEF ListBooking, lab, InvLoaded, TypeOK
  <2>2. /\ DOMAIN list' = DOMAIN list \cup {Len(list) + 1} /\ Len(list) + 1 \notin DOMAIN list
        /\ \A k \in DOMAIN list : list'[k] = list[k]
        /\ list'[Len(list) + 1] = cur
    BY <2>1
  <2>3. Listed(b)' <=> Listed(b) \/ b = cur
    BY <2>2 DEF Listed
  <2>4. Deployed(b)'
    BY <2>1, <2>3, DeployedQuiet DEF Starting, Ending
  <2>5. Keyed(b)'
    BY <2>1, <2>3 DEF Keyed, Starting
  <2>. QED BY <2>4, <2>5
<1>8. CASE BeginStart
  <2>1. /\ UNCHANGED <<list, rec, flows, draft>> /\ pc' = "start" /\ rec[cur'] # None
        /\ cur' \in Bookings /\ rec[cur'].status < 1 /\ cur' = Head(queue) /\ queue # <<>>
    BY <1>8 DEF BeginStart, TakeBooking, Due, store, lab, TypeOK
  <2>2. CASE cur' # b
    BY <1>1, <2>1, <2>2, DeployedQuiet, KeyedQuiet
  <2>3. CASE cur' = b
    <3>1. rec[b].status = 0
      BY <2>1, <2>3 DEF Record
    <3>2. Deploying(b) = {}
      BY <3>1 DEF Deployed
    <3>3. Listed(b)
      <4>1. 1 \in DOMAIN queue /\ queue[1] = b
        BY <2>1, <2>3 DEF TypeOK
      <4>. QED BY <4>1 DEF InvList
    <3>4. Keyed(b)'
      BY <1>1, <2>1, <3>1, <3>3 DEF Keyed
    <3>. QED BY <2>1, <3>2, <3>4, DeployedQuiet
  <2>. QED BY <2>2, <2>3
<1>9. CASE BeginEnd
  <2>1. /\ UNCHANGED <<list, rec, flows, draft>> /\ pc' = "end" /\ cur' = Head(queue)
        /\ copy' = rec[cur'] /\ NoteOverrun
    BY <1>9 DEF BeginEnd, TakeBooking, store, lab
  <2>2. CASE cur' # b
    BY <1>1, <2>1, <2>2, DeployedQuiet, KeyedQuiet
  <2>3. CASE cur' = b
    <3>1. Deploying(b) = {}
      BY <2>1, <2>3 DEF NoteOverrun, Deploying, DeployFlows
    <3>2. Keyed(b)'
      BY <1>1, <2>1, <2>3 DEF Keyed, Starting
    <3>. QED BY <2>1, <3>1, <3>2, DeployedQuiet
  <2>. QED BY <2>2, <2>3
<1>10. CASE ReadStatus
  <2>1. /\ UNCHANGED <<list, rec, flows, cur, copy>> /\ draft' = rec[cur]
        /\ <<pc, pc'>> \in {<<"start", "startSave">>, <<"end", "endSave">>}
    BY <1>10 DEF ReadStatus, store, lab
  <2>2. Deployed(b)'
    BY <1>1, <2>1, DeployedQuiet DEF Starting, Ending
  <2>3. Keyed(b)'
    BY <1>1, <2>1 DEF Keyed, Starting
  <2>. QED BY <2>2, <2>3
<1>11. CASE MarkStarted \/ MarkEnded
  <2>1. PICK v \in {1, 3} : rec' = [rec EXCEPT ![cur] = [draft EXCEPT !.status = v]]
    BY <1>11 DEF MarkStarted, MarkEnded, SaveStatus
  <2>2. /\ UNCHANGED <<list, flows, cur, copy>>
        /\ <<pc, pc'>> \in {<<"startSave", "startDispatch">>, <<"endSave", "unlist">>}
        /\ draft \in Record /\ cur \in Bookings
    BY <1>11 DEF MarkStarted, MarkEnded, SaveStatus, lab, InvLoaded, TypeOK, Starting, Ending
  <2>3. CASE cur # b
    <3>1. rec'[b] = rec[b]
      BY <2>1, <2>3
    <3>. QED BY <1>1, <2>2, <2>3, <3>1, DeployedQuiet, KeyedQuiet
  <2>4. CASE cur = b
    <3>1. Deploying(b) = {}
      BY <1>2, <2>2, <2>4 DEF Starting, Ending
    <3>2. rec'[b].status = v /\ rec'[b].key = draft.key
      BY <2>1, <2>2, <2>4 DEF Record
    <3>3. Keyed(b)'
      BY <2>2, <2>4, <3>2 DEF Keyed, Starting
    <3>. QED BY <2>2, <3>1, <3>3, DeployedQuiet
  <2>. QED BY <2>3, <2>4
<1>12. CASE Unlist
  <2>1. /\ UNCHANGED <<rec, flows, cur, copy, draft>> /\ pc = "unlist" /\ pc' = "forget"
        /\ Listed(b)' <=> b # cur /\ Listed(b)
    BY <1>12, UnlistFacts DEF Unlist, lab
  <2>2. CASE cur # b
    BY <2>1, <2>2, DeployedQuiet, KeyedQuiet
  <2>3. CASE cur = b
    <3>1. Deploying(b) = {}
      BY <1>2, <2>1, <2>3 DEF Ending
    <3>2. Keyed(b)'
      BY <2>1, <2>3 DEF Keyed, Starting
    <3>. QED BY <2>1, <3>1, <3>2, DeployedQuiet
  <2>. QED BY <2>2, <2>3
<1>13. CASE Forget
  <2>1. /\ UNCHANGED <<list, flows, cur, copy, draft>> /\ pc = "forget" /\ pc' = "endDispatch"
        /\ rec' = [rec EXCEPT ![cur] = None]
    BY <1>13 DEF Forget, lab
  <2>2. CASE cur # b
    <3>1. rec'[b] = rec[b]
      BY <2>1, <2>2
    <3>. QED BY <1>1, <2>1, <2>2, <3>1, DeployedQuiet, KeyedQuiet
  <2>3. CASE cur = b
    <3>1. Deploying(b) = {} /\ ~Listed(b)
      BY <1>2, <2>1, <2>3 DEF Ending, InvList
    <3>2. Keyed(b)'
      BY <1>1, <2>1, <3>1 DEF Keyed, Starting
    <3>. QED BY <2>1, <3>1, <3>2, DeployedQuiet
  <2>. QED BY <2>2, <2>3
<1>14. CASE DispatchStart
  <2>. DEFINE n == Len(flows) + 1
  <2>1. /\ DeployFlows(b)' = DeployFlows(b) \cup IF b = cur THEN {n} ELSE {}
        /\ \A j \in DOMAIN flows : flows'[j] = flows[j]
        /\ flows'[n].stage = "image" /\ n \notin DOMAIN flows
    BY <1>14, DispatchSets DEF DispatchStart
  <2>2. /\ UNCHANGED <<list, rec, draft>> /\ pc' = "check" /\ pc = "startDispatch" /\ cur' = None
    BY <1>14 DEF DispatchStart, Dispatch, store
  <2>. HIDE DEF n
  <2>3. Keyed(b)'
    BY <1>1, <2>2, KeyedQuiet
  <2>4. CASE b # cur
    <3>1. Deploying(b)' = Deploying(b) /\ \A j \in Deploying(b) : flows'[j] = flows[j]
      BY <2>1, <2>4 DEF Deploying, DeployFlows
    <3>. QED BY <1>1, <2>2, <2>3, <3>1 DEF Deployed
  <2>5. CASE b = cur
    <3>1. Deploying(b) = {} /\ Listed(b) /\ rec[b].status # 0 /\ rec[b].key = None
      BY <1>2, <2>2, <2>5 DEF Starting, InvList, Keyed
    <3>2. Deploying(b)' \subseteq {n}
      BY <2>1, <3>1 DEF Deploying, DeployFlows
    <3>. QED BY <1>1, <2>1, <2>2, <2>3, <3>1, <3>2 DEF Deployed, Starting, Ending
  <2>. QED BY <2>4, <2>5
<1>15. CASE DispatchEnd
  <2>1. /\ DeployFlows(b)' = DeployFlows(b)
        /\ \A j \in DOMAIN flows : flows'[j] = flows[j]
    BY <1>15, DispatchSets DEF DispatchEnd
  <2>2. /\ UNCHANGED <<list, rec, draft>> /\ pc' = "check" /\ cur' = None
    BY <1>15 DEF DispatchEnd, Dispatch, store
  <2>3. Deploying(b)' = Deploying(b) /\ \A j \in Deploying(b) : flows'[j] = flows[j]
    BY <2>1 DEF Deploying, DeployFlows
  <2>4. Keyed(b)'
    BY <1>1, <2>2, KeyedQuiet
  <2>. QED BY <1>1, <2>2, <2>3, <2>4 DEF Deployed
<1>. QED BY <1>4, <1>5, <1>6, <1>7, <1>8, <1>9, <1>10, <1>11, <1>12, <1>13, <1>14, <1>15
         DEF SensorStep

LEMMA DeployedStep ==
  ASSUME UInv, [Next]_vars
  PROVE  InvDeployed' /\ InvKeyed'
<1>1. CASE UNCHANGED vars
  BY <1>1 DEF vars, store, sensor, lab, losses, UInv, InvDeployed, InvKeyed, Deployed, Keyed,
     Deploying, DeployFlows, Listed
<1>2. ASSUME NEW i \in DOMAIN flows, FlowStep(i) PROVE InvDeployed' /\ InvKeyed'
  <2>1. overrun' = overrun
    BY <1>2, FlowMove DEF UInv, IInv, losses
  <2>. QED BY <1>2, <2>1, DeployedFlow DEF InvDeployed, InvKeyed
<1>3. CASE \/ Tick \/ (\E c \in Bookings : ChangeBooking(c)) \/ (\E h \in Hosts : FinishImaging(h))
           \/ SensorStep \/ Restart
  BY <1>3, DeployedSensor DEF InvDeployed, InvKeyed
<1>. QED BY <1>1, <1>2, <1>3 DEF Next

(* The key stays where it is while a workflow goes on that is not the one  *)
(* to delete its user.                                                     *)
LEMMA KeyFlow ==
  ASSUME UInv, NEW i \in DOMAIN flows, FlowStep(i), NEW n \in Names, users'[n] # 0,
         NEW b \in Bookings \ overrun, KeyKept(b, n)
  PROVE  KeyKept(b, n)'
<1>0. /\ Deployed(b) /\ TypeOK /\ InvLoaded /\ rec \in [Bookings -> Record \cup {None}]
      /\ None \notin Names
  BY FogAssumption DEF UInv, InvDeployed, IInv, TypeOK
<1>1. /\ UNCHANGED <<list, pc, cur, copy>> /\ CleanFlows(b)' = CleanFlows(b)
      /\ \A j \in DOMAIN flows : j # i => flows'[j] = flows[j]
  BY <1>0, FlowMove, FlowSets DEF sensor
<1>2. CASE Listed(b) /\ rec[b] # None /\ rec[b].key = n
  <2>1. rec'[b] = rec[b]
    <3>1. SUFFICES ASSUME rec'[b] # rec[b] PROVE FALSE
      OBVIOUS
    <3>2. flows[i].kind = "deploy" /\ flows[i].booking = b
      BY <1>0, <3>1, FlowWrites
    <3>3. i \in Deploying(b)
      BY <1>0, <3>2, DeployingFlow
    <3>. QED BY <1>0, <1>2, <3>3 DEF Deployed
  <2>2. Listed(b)'
    BY <1>1, <1>2 DEF Listed
  <2>. QED BY <1>2, <2>1, <2>2 DEF KeyKept
<1>3. CASE pc \in {"forget", "endDispatch"} /\ cur = b /\ copy.key = n
  BY <1>1, <1>3 DEF KeyKept
<1>4. ASSUME NEW j \in CleanFlows(b), flows[j].key = n, flows[j].stage # "done"
      PROVE  KeyKept(b, n)'
  <2>1. CASE j # i
    <3>1. flows'[j] = flows[j] /\ j \in CleanFlows(b)'
      BY <1>1, <2>1 DEF CleanFlows
    <3>. QED BY <1>4, <3>1 DEF KeyKept
  <2>2. CASE j = i
    <3>1. flows[i].kind = "clean"
      BY <1>4, <2>2 DEF CleanFlows
    <3>2. flows[i].stage \notin {"user", "save"}
      BY <1>0, <3>1 DEF InvLoaded
    <3>3. flows'[i].key = n
      BY <1>0, <1>4, <2>2, <3>2, FlowShape
    <3>4. flows[i].stage # "revoke"
      BY <1>0, <1>4, <2>2, FlowWrites
    <3>5. flows'[i].stage # "done"
      <4>1. <<flows[i].stage, flows'[i].stage>> \in Moves
        BY <1>0, FlowShape
      <4>. QED BY <3>2, <3>4, <4>1 DEF Moves
    <3>6. i \in CleanFlows(b)'
      BY <1>1, <1>4, <2>2
    <3>. QED BY <3>3, <3>5, <3>6 DEF KeyKept
  <2>. QED BY <2>1, <2>2
<1>. QED BY <1>2, <1>3, <1>4 DEF KeyKept

(* ... and while the sensor ends the booking: it goes from the record to   *)
(* the copy and from there to the clean workflow.                          *)
LEMMA KeySensor ==
  ASSUME UInv, NEW n \in Names, NEW b \in Bookings, b \notin overrun' \cup cut', KeyKept(b, n),
         \/ Tick \/ (\E c \in Bookings : ChangeBooking(c)) \/ (\E h \in Hosts : FinishImaging(h))
         \/ SensorStep \/ Restart
  PROVE  KeyKept(b, n)' /\ b \notin overrun \cup cut
<1>0. /\ b \notin overrun /\ b \notin cut
      /\ TypeOK /\ InvLoaded /\ InvList
      /\ rec \in [Bookings -> Record \cup {None}] /\ None \notin Bookings
  <2>1. b \notin overrun /\ b \notin cut
    BY DEF SensorStep, Tick, ChangeBooking, FinishImaging, Fetch, StoreBooking, ListBooking,
       StartCheck, PassBooking, BeginStart, BeginEnd, TakeBooking, NoteOverrun, RaiseInCheck,
       FinishCheck, ReadStatus, MarkStarted, MarkEnded, SaveStatus, DispatchStart, DispatchEnd,
       Dispatch, Unlist, Forget, Restart, losses
  <2>. QED BY <2>1, FogAssumption DEF UInv, IInv, TypeOK
<1>a. Keyed(b)
  BY <1>0 DEF UInv, InvKeyed
<1>. USE <1>0, <1>a
<1>1. ASSUME list' = list PROVE Listed(b)' <=> Listed(b)
  BY <1>1 DEF Listed
<1>2. ASSUME NEW j \in CleanFlows(b), flows[j].key = n, flows[j].stage # "done"
      PROVE  KeyKept(b, n)'
  <2>1. CASE flows' = flows
    BY <1>2, <2>1 DEF KeyKept, CleanFlows
  <2>2. CASE DispatchStart \/ DispatchEnd
    <3>1. PICK kind \in {"deploy", "clean"}, key \in Names \cup {None, copy.key} : Dispatch(kind, key)
      BY <2>2 DEF DispatchStart, DispatchEnd
    <3>2. j \in CleanFlows(b)' /\ flows'[j] = flows[j]
      BY <1>2, <3>1, DispatchSets DEF CleanFlows
    <3>. QED BY <1>2, <3>2 DEF KeyKept
  <2>. QED BY <2>1, <2>2, OthersKeepFlows
<1>3. CASE pc \in {"forget", "endDispatch"} /\ cur = b /\ copy.key = n
  <2>1. CASE UNCHANGED sensor
    BY <1>3, <2>1 DEF sensor, KeyKept
  <2>2. CASE Forget
    BY <1>3, <2>2 DEF Forget, KeyKept
  <2>3. CASE DispatchEnd
    <3>1. /\ CleanFlows(b)' = CleanFlows(b) \cup {Len(flows) + 1}
          /\ Dispatch("clean", copy.key)
      BY <1>3, <2>3, DispatchSets DEF DispatchEnd
    <3>. DEFINE m == Len(flows) + 1
    <3>2. flows'[m].key = n /\ flows'[m].stage = "image" /\ m \in CleanFlows(b)'
      <4>1. flows \in Seq(Flow)
        BY DEF TypeOK
      <4>2. flows'[m] = [kind |-> "clean", booking |-> cur, host |-> copy.host,
                         stage |-> "image", task |-> 0, blind |-> FALSE,
                         key |-> copy.key, draft |-> None]
        BY <3>1, <4>1 DEF Dispatch
      <4>. QED BY <1>3, <3>1, <4>2
    <3>. HIDE DEF m
    <3>. QED BY <3>2 DEF KeyKept
  <2>4. CASE Restart
    BY <1>3, <2>4 DEF Restart
  <2>. QED BY <1>3, <2>1, <2>2, <2>3, <2>4 DEF SensorStep, Tick, ChangeBooking, FinishImaging,
       Fetch, StoreBooking, ListBooking, StartCheck, PassBooking, BeginStart, BeginEnd, TakeBooking,
       RaiseInCheck, FinishCheck, ReadStatus, MarkStarted, MarkEnded, DispatchStart, Unlist
<1>4. CASE Listed(b) /\ rec[b] # None /\ rec[b].key = n
  <2>1. ASSUME UNCHANGED <<list, rec>> PROVE KeyKept(b, n)'
    BY <1>1, <1>4, <2>1 DEF KeyKept
  <2>2. ASSUME NEW c \in Bookings, StoreBooking(c) PROVE KeyKept(b, n)'
    <3>1. c # b /\ list' = list /\ rec'[b] = rec[b]
      BY <1>4, <2>2 DEF StoreBooking, New
    <3>. QED BY <1>1, <1>4, <3>1 DEF KeyKept
  <2>3. CASE ListBooking
    <3>1. list \in Seq(Bookings) /\ cur \in Bookings /\ list' = Append(list, cur) /\ rec' = rec
      BY <2>3 DEF ListBooking, InvLoaded, TypeOK
    <3>2. Listed(b)'
      BY <1>4, <3>1 DEF Listed
    <3>. QED BY <1>4, <3>1, <3>2 DEF KeyKept
  <2>4. CASE MarkStarted \/ MarkEnded
    <3>1. PICK v \in {1, 3} : rec' = [rec EXCEPT ![cur] = [draft EXCEPT !.status = v]]
      BY <2>4 DEF MarkStarted, MarkEnded, SaveStatus
    <3>2. list' = list /\ pc \in {"startSave", "endSave"} /\ draft \in Record
      BY <2>4 DEF MarkStarted, MarkEnded, SaveStatus, InvLoaded, TypeOK, Starting, Ending
    <3>3. rec'[b] # None /\ rec'[b].key = n
      <4>1. CASE cur # b
        BY <1>4, <3>1, <4>1
      <4>2. CASE cur = b
        <5>1. rec'[b] = [draft EXCEPT !.status = v] /\ draft.key = n
          BY <1>4, <3>1, <3>2, <4>2 DEF Keyed
        <5>2. [draft EXCEPT !.status = v] \in Record /\ [draft EXCEPT !.status = v].key = n
          BY <3>2, <5>1 DEF Record
        <5>. QED BY <5>1, <5>2, FogAssumption
      <4>. QED BY <4>1, <4>2
    <3>. QED BY <1>1, <1>4, <3>2, <3>3 DEF KeyKept
  <2>5. CASE Unlist
    <3>1. /\ rec' = rec /\ UNCHANGED <<cur, copy>> /\ pc = "unlist" /\ pc' = "forget"
          /\ Listed(b)' <=> b # cur /\ Listed(b)
      BY <2>5, UnlistFacts DEF Unlist
    <3>2. cur = b => copy.key = n
      BY <1>4, <3>1 DEF Keyed
    <3>. QED BY <1>4, <3>1, <3>2 DEF KeyKept
  <2>6. CASE Forget
    <3>1. cur # b /\ list' = list /\ rec'[b] = rec[b]
      BY <1>4, <2>6 DEF Forget, InvList
    <3>. QED BY <1>1, <1>4, <3>1 DEF KeyKept
  <2>. QED BY <2>1, <2>2, <2>3, <2>4, <2>5, <2>6 DEF SensorStep, Tick, ChangeBooking, FinishImaging,
       Fetch, StartCheck, PassBooking, BeginStart, BeginEnd, TakeBooking, RaiseInCheck, FinishCheck,
       ReadStatus, DispatchStart, DispatchEnd, Dispatch, Restart, store
<1>. QED BY <1>2, <1>3, <1>4 DEF KeyKept

(* The deployment k of booking b made the user n.                          *)
UserAt(n, k, b) ==
  /\ users[n] = k /\ k \in DOMAIN flows
  /\ flows[k].kind = "deploy" /\ flows[k].booking = b
  /\ flows[k].stage \in {"save", "failed", "done"} /\ flows[k].key = n
  /\ flows[k].stage \in {"save", "failed"} \/ b \in overrun \cup cut \/ KeyKept(b, n)

LEMMA UserAtNow ==
  ASSUME InvUsers, NEW n \in Names, users[n] # 0
  PROVE  \E k, b : UserAt(n, k, b)
<1>1. UserAt(n, users[n], flows[users[n]].booking)
  BY DEF InvUsers, UsersTraceable, UserAt
<1>. QED BY <1>1

LEMMA UserAtNext ==
  ASSUME \A n \in Names : users'[n] # 0 => \E k, b : UserAt(n, k, b)'
  PROVE  InvUsers'
<1>. SUFFICES ASSUME NEW n \in Names, users'[n] # 0
              PROVE  /\ users'[n] \in DOMAIN flows' /\ flows'[users'[n]].kind = "deploy"
                     /\ flows'[users'[n]].stage \in {"save", "failed", "done"}
                     /\ flows'[users'[n]].key = n
                     /\ \/ flows'[users'[n]].stage \in {"save", "failed"}
                        \/ flows'[users'[n]].booking \in overrun' \cup cut'
                        \/ KeyKept(flows[users[n]].booking, n)'
  BY DEF InvUsers, UsersTraceable
<1>1. PICK k, b : UserAt(n, k, b)'
  OBVIOUS
<1>2. CASE KeyKept(b, n)'
  <2>1. KeyKept(flows[users[n]].booking, n)'
    BY <1>1, <1>2 DEF UserAt, KeyKept, Listed, CleanFlows
  <2>. QED BY <1>1, <2>1 DEF UserAt
<1>. QED BY <1>1, <1>2 DEF UserAt

LEMMA UsersFlow ==
  ASSUME UInv, NEW i \in DOMAIN flows, FlowStep(i)
  PROVE  InvUsers'
<1>0. /\ TypeOK /\ InvLoaded /\ InvUsers /\ users \in [Names -> Nat] /\ flows \in Seq(Flow)
      /\ rec \in [Bookings -> Record \cup {None}] /\ None \notin Names /\ i \in Nat \ {0}
  BY FogAssumption DEF UInv, IInv, TypeOK
<1>1. /\ UNCHANGED <<list, overrun, cut>> /\ DOMAIN flows' = DOMAIN flows
      /\ \A j \in DOMAIN flows : j # i => flows'[j] = flows[j]
  BY <1>0, FlowMove DEF losses
<1>2. /\ <<flows[i].stage, flows'[i].stage>> \in Moves
      /\ flows'[i].kind = flows[i].kind /\ flows'[i].booking = flows[i].booking
      /\ flows[i].stage # "user" => flows'[i].key = flows[i].key
  BY <1>0, FlowShape
<1>3. ASSUME NEW n \in Names, users'[n] # 0, users'[n] = users[n]
      PROVE  \E k, b : UserAt(n, k, b)'
  <2>1. PICK k, b : UserAt(n, k, b)
    BY <1>0, <1>3, UserAtNow
  <2>2. k \in DOMAIN flows /\ flows[k] \in Flow /\ b \in Bookings
    <3>1. k \in DOMAIN flows /\ flows[k].booking = b
      BY <2>1 DEF UserAt
    <3>2. flows[k] \in Flow
      BY <1>0, <3>1
    <3>. QED BY <3>1, <3>2 DEF Flow
  <2>3. CASE k # i
    <3>1. flows'[k] = flows[k]
      BY <1>1, <2>2, <2>3
    <3>2. KeyKept(b, n) /\ b \notin overrun => KeyKept(b, n)'
      BY <1>3, <2>2, KeyFlow
    <3>3. UserAt(n, k, b)'
      BY <1>1, <1>3, <2>1, <3>1, <3>2 DEF UserAt
    <3>. QED BY <3>3
  <2>4. CASE k = i
    <3>1. /\ flows[i].stage = "save" /\ flows'[i].stage \in {"done", "failed"}
          /\ flows'[i].key = n /\ flows[i].key = n
      BY <1>2, <2>1, <2>4 DEF UserAt, Moves
    <3>2. flows'[i].stage = "done" /\ b \notin overrun => KeyKept(b, n)'
      <4>. SUFFICES ASSUME flows'[i].stage = "done", b \notin overrun PROVE KeyKept(b, n)'
        OBVIOUS
      <4>1. /\ rec' = [rec EXCEPT ![b] = [flows[i].draft EXCEPT !.key = n]]
            /\ flows[i].draft \in Record
        BY <1>0, <2>1, <2>4, <3>1, FlowWrites DEF UserAt
      <4>2. i \in Deploying(b)
        BY <1>0, <2>1, <2>4, DeployingFlow DEF UserAt
      <4>3. Listed(b) /\ Listed(b)'
        BY <1>1, <2>2, <4>2 DEF UInv, InvDeployed, Deployed, Listed
      <4>4. rec'[b] # None /\ rec'[b].key = n
        <5>1. [flows[i].draft EXCEPT !.key = n] \in Record
              /\ [flows[i].draft EXCEPT !.key = n].key = n
          BY <4>1 DEF Record
        <5>. QED BY <1>0, <2>2, <4>1, <5>1, FogAssumption
      <4>. QED BY <4>3, <4>4 DEF KeyKept
    <3>3. UserAt(n, k, b)'
      BY <1>1, <1>2, <1>3, <2>1, <2>4, <3>1, <3>2 DEF UserAt
    <3>. QED BY <3>3
  <2>. QED BY <2>3, <2>4
<1>4. ASSUME NEW n \in Names, users'[n] = i, flows'[i].key = n, flows[i].kind = "deploy",
             flows'[i].stage \in {"save", "failed"}
      PROVE  \E k, b : UserAt(n, k, b)'
  <2>1. PICK b : b = flows'[i].booking
    OBVIOUS
  <2>2. UserAt(n, i, b)'
    BY <1>1, <1>2, <1>4, <2>1 DEF UserAt
  <2>. QED BY <2>2
<1>5. ASSUME NEW n \in Names, users'[n] # 0
      PROVE  \E k, b : UserAt(n, k, b)'
  <2>1. CASE users' = users
    BY <1>3, <1>5, <2>1
  <2>2. CASE /\ flows[i].kind = "deploy" /\ flows'[i].stage \in {"save", "failed"}
             /\ \E m \in Names : users' = [users EXCEPT ![m] = i] /\ flows'[i].key = m
    <3>1. PICK m \in Names : users' = [users EXCEPT ![m] = i] /\ flows'[i].key = m
      BY <2>2
    <3>2. CASE n = m
      BY <1>0, <1>4, <2>2, <3>1, <3>2
    <3>3. CASE n # m
      BY <1>3, <1>5, <3>1, <3>3
    <3>. QED BY <3>2, <3>3
  <2>3. CASE users' = [n_1 \in Names |-> IF n_1 = flows[i].key THEN 0 ELSE users[n_1]]
    BY <1>3, <1>5, <2>3
  <2>. QED BY <1>0, <2>1, <2>2, <2>3, FlowWrites
<1>. QED BY <1>5, UserAtNext

LEMMA UsersSensor ==
  ASSUME UInv,
         \/ Tick \/ (\E c \in Bookings : ChangeBooking(c)) \/ (\E h \in Hosts : FinishImaging(h))
         \/ SensorStep \/ Restart
  PROVE  InvUsers'
<1>0. /\ TypeOK /\ InvLoaded /\ InvUsers /\ users \in [Names -> Nat] /\ flows \in Seq(Flow)
  BY DEF UInv, IInv, TypeOK
<1>1. users' = users
  BY DEF SensorStep, Tick, ChangeBooking, FinishImaging, Fetch, StoreBooking, ListBooking,
     StartCheck, PassBooking, BeginStart, BeginEnd, TakeBooking, RaiseInCheck,
     FinishCheck, ReadStatus, MarkStarted, MarkEnded, SaveStatus, DispatchStart, DispatchEnd,
     Dispatch, Unlist, Forget, Restart, lab
<1>2. \A k \in DOMAIN flows : k \in DOMAIN flows' /\ flows'[k] = flows[k]
  <2>1. CASE DispatchStart \/ DispatchEnd
    <3>1. PICK kind \in {"deploy", "clean"}, key \in Names \cup {None, copy.key} : Dispatch(kind, key)
      BY <2>1 DEF DispatchStart, DispatchEnd
    <3>. QED BY <1>0, <3>1, DispatchSets
  <2>. QED BY <2>1, OthersKeepFlows
<1>3. ASSUME NEW n \in Names, users'[n] # 0
      PROVE  \E k, b : UserAt(n, k, b)'
  <2>1. PICK k, b : UserAt(n, k, b)
    BY <1>0, <1>1, <1>3, UserAtNow
  <2>2. b \in Bookings
    <3>1. k \in DOMAIN flows /\ flows[k].booking = b
      BY <2>1 DEF UserAt
    <3>2. flows[k] \in Flow
      BY <1>0, <3>1
    <3>. QED BY <3>1, <3>2 DEF Flow
  <2>3. b \in overrun \cup cut => b \in overrun' \cup cut'
    BY DEF SensorStep, Tick, ChangeBooking, FinishImaging, Fetch, StoreBooking, ListBooking,
       StartCheck, PassBooking, BeginStart, BeginEnd, TakeBooking, NoteOverrun, RaiseInCheck,
       FinishCheck, ReadStatus, MarkStarted, MarkEnded, SaveStatus, DispatchStart, DispatchEnd,
       Dispatch, Unlist, Forget, Restart, losses
  <2>4. KeyKept(b, n) /\ b \notin overrun' \cup cut' => KeyKept(b, n)'
    BY <2>2, KeySensor
  <2>5. UserAt(n, k, b)'
    BY <1>1, <1>2, <2>1, <2>3, <2>4 DEF UserAt
  <2>. QED BY <2>5
<1>. QED BY <1>3, UserAtNext

LEMMA UsersStep ==
  ASSUME UInv, [Next]_vars
  PROVE  InvUsers'
<1>1. CASE UNCHANGED vars
  BY <1>1 DEF vars, store, sensor, lab, losses, UInv, InvUsers, UsersTraceable, KeyKept, CleanFlows,
     Listed
<1>. QED BY <1>1, UsersFlow, UsersSensor DEF Next

-----------------------------------------------------------------------------
(* The imaging tasks and the disks. *)

LEMMA FogWrites ==
  ASSUME TypeOK, InvLoaded, NEW i \in DOMAIN flows, FlowStep(i)
  PROVE  /\ \/ task' = task /\ cancelled' = cancelled
            \/ /\ flows[i].stage = "image" /\ cancelled' = cancelled
               /\ task' = [task EXCEPT ![flows[i].host] =
                              IF task[flows[i].host] = 0 THEN i ELSE task[flows[i].host]]
            \/ /\ flows[i].stage = "image"
               /\ cancelled' = cancelled \cup ({task[flows[i].host]} \ {0})
               /\ task' = [task EXCEPT ![flows[i].host] = i]
         /\ \/ disk' = disk
            \/ /\ flows[i].stage = "install" /\ flows[i].kind = "deploy"
               /\ disk' = [disk EXCEPT ![flows[i].host] = flows[i].booking]
         /\ flows[i].stage = "find" =>
               \/ /\ flows'[i].stage = "watch" /\ flows'[i].task = task[flows[i].host]
                  /\ task[flows[i].host] # 0
               \/ flows'[i].stage = "failed" /\ task[flows[i].host] = 0
         /\ flows[i].stage = "watch" =>
               flows'[i].blind \/ task[flows[i].host] # flows[i].task
<1>1. flows \in Seq(Flow) /\ flows[i] \in Flow
  <2>1. flows \in Seq(Flow)
    BY DEF TypeOK
  <2>. QED BY <2>1
<1>2. CASE StartImaging(i)
  BY <1>2 DEF StartImaging, Mine
<1>3. CASE StartImagingTrouble(i)
  BY <1>3 DEF StartImagingTrouble, CancelTask, NoHostNumber, Mine
<1>4. CASE FindTask(i)
  <2>1. flows'[i] = [flows[i] EXCEPT !.stage = "watch", !.task = task[Mine(i)]]
    BY <1>1, <1>4 DEF FindTask
  <2>2. flows'[i].stage = "watch" /\ flows'[i].task = task[flows[i].host]
    BY <1>1, <2>1 DEF Flow, Mine
  <2>. QED BY <1>4, <2>2 DEF FindTask, Mine, fog
<1>5. CASE FindNoTask(i)
  <2>1. flows'[i] = [flows[i] EXCEPT !.stage = "failed"]
    BY <1>1, <1>5 DEF FindNoTask, Step
  <2>2. flows'[i].stage = "failed"
    BY <1>1, <2>1 DEF Flow
  <2>. QED BY <1>5, <2>2 DEF FindNoTask, Mine, fog
<1>6. CASE WatchTask(i)
  BY <1>6 DEF WatchTask, Mine, fog
<1>7. CASE WatchOutage(i)
  <2>1. flows'[i] = [flows[i] EXCEPT !.stage = AfterImaging(i), !.blind = TRUE]
    BY <1>1, <1>7 DEF WatchOutage
  <2>2. flows'[i].blind
    BY <1>1, <2>1 DEF Flow
  <2>. QED BY <1>7, <2>2 DEF WatchOutage, fog
<1>8. CASE Install(i)
  BY <1>8 DEF Install, Mine, InvLoaded
<1>9. CASE MakeUser(i) \/ MakeUserNoName(i) \/ SaveUser(i) \/ Revoke(i) \/ FailFlow(i)
  BY <1>9 DEF MakeUser, MakeUserNoName, SaveUser, Revoke, FailFlow, fog
<1>. QED BY <1>2, <1>3, <1>4, <1>5, <1>6, <1>7, <1>8, <1>9 DEF FlowStep

(* Nothing but a workflow and a machine that has been imaged writes tasks   *)
(* and disks, and a dispatch adds a workflow that has not begun.           *)
LEMMA FogBeside ==
  ASSUME TypeOK,
         \/ Tick \/ (\E c \in Bookings : ChangeBooking(c)) \/ SensorStep \/ Restart
  PROVE  /\ UNCHANGED <<task, disk, cancelled>>
         /\ \A k \in DOMAIN flows : k \in DOMAIN flows' /\ flows'[k] = flows[k]
         /\ \A k \in DOMAIN flows' : k \in DOMAIN flows \/ flows'[k].stage = "image"
<1>1. UNCHANGED <<task, disk, cancelled>>
  BY DEF SensorStep, Tick, ChangeBooking, Fetch, StoreBooking, ListBooking, StartCheck, PassBooking,
     BeginStart, BeginEnd, TakeBooking, RaiseInCheck, FinishCheck, ReadStatus, MarkStarted,
     MarkEnded, SaveStatus, DispatchStart, DispatchEnd, Dispatch, Unlist, Forget, Restart, lab, fog
<1>2. CASE DispatchStart \/ DispatchEnd
  <2>1. PICK kind \in {"deploy", "clean"}, key \in Names \cup {None, copy.key} : Dispatch(kind, key)
    BY <1>2 DEF DispatchStart, DispatchEnd
  <2>. QED BY <1>1, <2>1, DispatchSets
<1>3. CASE flows' = flows
  BY <1>1, <1>3
<1>. QED BY <1>2, <1>3, OthersKeepFlows

LEMMA TasksStep ==
  ASSUME DInv, [Next]_vars
  PROVE  InvTasks'
<1>0. /\ TypeOK /\ InvLoaded /\ InvTasks
      /\ task \in [Hosts -> Nat] /\ flows \in Seq(Flow) /\ DOMAIN flows \subseteq Nat \ {0}
  <2>1. TypeOK /\ InvLoaded /\ InvTasks /\ task \in [Hosts -> Nat] /\ flows \in Seq(Flow)
    BY DEF DInv, UInv, IInv, TypeOK
  <2>. QED BY <2>1
<1>1. CASE UNCHANGED vars
  BY <1>0, <1>1 DEF vars, lab, fog, InvTasks
<1>2. CASE \/ Tick \/ (\E c \in Bookings : ChangeBooking(c)) \/ SensorStep \/ Restart
  BY <1>0, <1>2, FogBeside DEF InvTasks
<1>3. ASSUME NEW h \in Hosts, FinishImaging(h) PROVE InvTasks'
  BY <1>0, <1>3 DEF FinishImaging, InvTasks
<1>4. ASSUME NEW i \in DOMAIN flows, FlowStep(i) PROVE InvTasks'
  <2>1. /\ <<flows[i].stage, flows'[i].stage>> \in Moves
        /\ flows'[i].host = flows[i].host
        /\ flows[i].stage # "find" => flows'[i].task = flows[i].task
        /\ flows[i].blind => flows'[i].blind
        /\ DOMAIN flows' = DOMAIN flows
        /\ \A j \in DOMAIN flows : j # i => flows'[j] = flows[j]
    BY <1>0, <1>4, FlowShape, FlowMove
  <2>2. flows[i].host \in Hosts
    <3>1. flows[i] \in Flow
      BY <1>0
    <3>. QED BY <3>1 DEF Flow
  <2>3. ASSUME NEW h \in Hosts, NEW k, k = task[h], k # 0, task'[h] = k
        PROVE  /\ k \in DOMAIN flows' /\ flows'[k].host = h
               /\ \/ flows'[k].stage = "find" \/ flows'[k].blind
                  \/ flows'[k].stage = "watch" /\ flows'[k].task = k
    <3>1. /\ k \in DOMAIN flows /\ flows[k].host = h
          /\ \/ flows[k].stage = "find" \/ flows[k].blind
             \/ flows[k].stage = "watch" /\ flows[k].task = k
      BY <1>0, <2>3 DEF InvTasks
    <3>2. CASE k # i
      BY <2>1, <3>1, <3>2
    <3>3. CASE k = i
      BY <1>0, <1>4, <2>1, <2>3, <3>1, <3>3, FogWrites
    <3>. QED BY <3>2, <3>3
  <2>4. ASSUME NEW h \in Hosts, task'[h] # 0, task'[h] # task[h]
        PROVE  h = flows[i].host /\ task'[h] = i /\ flows'[i].stage = "find"
    <3>1. flows[i].stage = "image" => flows'[i].stage = "find"
      BY <2>1 DEF Moves
    <3>. QED BY <1>0, <1>4, <2>2, <2>4, <3>1, FogWrites
  <2>. SUFFICES ASSUME NEW h \in Hosts, task'[h] # 0
                PROVE  /\ task'[h] \in DOMAIN flows' /\ flows'[task'[h]].host = h
                       /\ \/ flows'[task'[h]].stage = "find" \/ flows'[task'[h]].blind
                          \/ flows'[task'[h]].stage = "watch" /\ flows'[task'[h]].task = task'[h]
    BY DEF InvTasks
  <2>5. CASE task'[h] = task[h]
    BY <2>3, <2>5
  <2>6. CASE task'[h] # task[h]
    BY <2>1, <2>4, <2>6
  <2>. QED BY <2>5, <2>6
<1>. QED BY <1>1, <1>2, <1>3, <1>4 DEF Next

LEMMA DisksStep ==
  ASSUME DInv, [Next]_vars
  PROVE  InvDisks'
<1>0. /\ TypeOK /\ InvLoaded /\ InvDisks
      /\ disk \in [Hosts -> Bookings \cup {None}] /\ flows \in Seq(Flow)
  BY DEF DInv, UInv, IInv, TypeOK
<1>. DEFINE Installed(h, b) ==
        \E i \in DOMAIN flows :
            /\ flows[i].kind = "deploy" /\ flows[i].booking = b /\ flows[i].host = h
            /\ flows[i].stage \in {"user", "save", "done", "failed"}
<1>1. /\ InvDisks => \A h \in Hosts : disk[h] # None => Installed(h, disk[h])
      /\ (\A h \in Hosts : disk'[h] # None => Installed(h, disk[h])') => InvDisks'
  BY DEF InvDisks, DeployFlows
<1>2. CASE UNCHANGED vars
  BY <1>0, <1>2 DEF vars, lab, fog, InvDisks, DeployFlows
<1>3. CASE \/ Tick \/ (\E c \in Bookings : ChangeBooking(c)) \/ SensorStep \/ Restart
  BY <1>0, <1>3, <1>1, FogBeside
<1>4. ASSUME NEW h \in Hosts, FinishImaging(h) PROVE InvDisks'
  BY <1>0, <1>1, <1>4 DEF FinishImaging
<1>5. ASSUME NEW i \in DOMAIN flows, FlowStep(i) PROVE InvDisks'
  <2>1. /\ <<flows[i].stage, flows'[i].stage>> \in Moves
        /\ flows'[i].host = flows[i].host /\ flows'[i].kind = flows[i].kind
        /\ flows'[i].booking = flows[i].booking
        /\ DOMAIN flows' = DOMAIN flows
        /\ \A j \in DOMAIN flows : j # i => flows'[j] = flows[j]
    BY <1>0, <1>5, FlowShape, FlowMove
  <2>2. flows[i].host \in Hosts
    <3>1. flows[i] \in Flow
      BY <1>0
    <3>. QED BY <3>1 DEF Flow
  <2>3. flows[i].stage \in {"user", "save", "done", "failed"}
          => flows'[i].stage \in {"user", "save", "done", "failed"}
    BY <2>1 DEF Moves
  <2>4. ASSUME NEW h \in Hosts, disk'[h] # None, disk'[h] = disk[h]
        PROVE  Installed(h, disk[h])'
    <3>1. PICK j \in DOMAIN flows :
            /\ flows[j].kind = "deploy" /\ flows[j].booking = disk[h] /\ flows[j].host = h
            /\ flows[j].stage \in {"user", "save", "done", "failed"}
      BY <1>0, <1>1, <2>4
    <3>. QED BY <2>1, <2>3, <2>4, <3>1
  <2>5. ASSUME NEW h \in Hosts, disk'[h] # disk[h]
        PROVE  Installed(h, disk[h])'
    <3>1. /\ flows[i].stage = "install" /\ flows[i].kind = "deploy"
          /\ h = flows[i].host /\ disk'[h] = flows[i].booking
      BY <1>0, <1>5, <2>2, <2>5, FogWrites
    <3>2. flows'[i].stage = "user"
      BY <2>1, <3>1 DEF Moves
    <3>. QED BY <2>1, <3>1, <3>2
  <2>. HIDE DEF Installed
  <2>. QED BY <1>1, <2>4, <2>5
<1>. QED BY <1>2, <1>3, <1>4, <1>5 DEF Next

(* Nobody installs a booking that has been ended.                          *)
LEMMA EndedNotInstalled ==
  ASSUME UInv, NEW b \in Bookings, b \notin overrun \cup moved, CleanFlows(b) # {},
         NEW j \in DeployFlows(b)
  PROVE  ~Running(flows[j])
<1>1. Once(b) /\ Deployed(b)
  BY DEF UInv, IInv, InvOnce, InvDeployed
<1>2. ~Listed(b)
  BY <1>1 DEF Once, Ended
<1>. QED BY <1>1, <1>2 DEF Deployed, Deploying

(* What is said of a clean workflow from the moment it watches a task.     *)
Blank(i) ==
  /\ flows[i].kind = "clean" /\ flows[i].task \notin cancelled
  /\ flows[i].booking \notin overrun \cup moved
  => /\ flows[i].stage = "watch" =>
            \/ disk[flows[i].host] # flows[i].booking
            \/ flows[i].task # 0 /\ task[flows[i].host] = flows[i].task
     /\ flows[i].stage \in {"revoke", "done"} /\ ~flows[i].blind
            => disk[flows[i].host] # flows[i].booking

LEMMA BlankAll ==
  /\ InvWatched /\ CleanedMachinesBlank <=> \A i \in DOMAIN flows : Blank(i)
  /\ (InvWatched /\ CleanedMachinesBlank)' <=> \A i \in DOMAIN flows' : Blank(i)'
BY DEF InvWatched, CleanedMachinesBlank, Blank

LEMMA BlankStep ==
  ASSUME DInv, [Next]_vars
  PROVE  InvWatched' /\ CleanedMachinesBlank'
<1>0. /\ TypeOK /\ InvLoaded /\ UInv /\ (\A i \in DOMAIN flows : Blank(i))
      /\ disk \in [Hosts -> Bookings \cup {None}] /\ flows \in Seq(Flow)
      /\ task \in [Hosts -> Nat] /\ None \notin Bookings
  BY BlankAll, FogAssumption DEF DInv, UInv, IInv, TypeOK
<1>1. overrun \subseteq overrun' /\ moved \subseteq moved'
  <2>1. moved \subseteq moved'
    BY MovedGrows
  <2>2. overrun \subseteq overrun'
    <3>1. CASE UNCHANGED vars
      BY <3>1 DEF vars, losses
    <3>2. CASE \E i \in DOMAIN flows : FlowStep(i)
      BY <1>0, <3>2, FlowMove DEF losses
    <3>3. CASE \/ Tick \/ (\E c \in Bookings : ChangeBooking(c)) \/ (\E h \in Hosts : FinishImaging(h))
              \/ Restart
      BY <3>3 DEF Tick, ChangeBooking, FinishImaging, Restart, losses
    <3>4. CASE SensorStep
      <4>1. overrun' = overrun \/ BeginEnd
        BY <3>4 DEF SensorStep, Fetch, StoreBooking, ListBooking, StartCheck, PassBooking, BeginStart,
           RaiseInCheck, FinishCheck, ReadStatus, MarkStarted, MarkEnded, SaveStatus, DispatchStart,
           DispatchEnd, Dispatch, Unlist, Forget, losses
      <4>. QED BY <4>1 DEF BeginEnd, NoteOverrun
    <3>. QED BY <3>1, <3>2, <3>3, <3>4 DEF Next
  <2>. QED BY <2>1, <2>2
<1>2. CASE UNCHANGED vars
  BY <1>0, <1>2, BlankAll DEF vars, board, lab, fog, losses, Blank
<1>3. CASE \/ Tick \/ (\E c \in Bookings : ChangeBooking(c)) \/ SensorStep \/ Restart
  <2>1. /\ UNCHANGED <<task, disk, cancelled>>
        /\ \A k \in DOMAIN flows : k \in DOMAIN flows' /\ flows'[k] = flows[k]
        /\ \A k \in DOMAIN flows' : k \in DOMAIN flows \/ flows'[k].stage = "image"
    BY <1>0, <1>3, FogBeside
  <2>2. ASSUME NEW k \in DOMAIN flows' PROVE Blank(k)'
    BY <1>0, <1>1, <2>1, <2>2 DEF Blank
  <2>. QED BY <2>2, BlankAll
<1>4. ASSUME NEW h \in Hosts, FinishImaging(h) PROVE InvWatched' /\ CleanedMachinesBlank'
  <2>1. /\ flows' = flows /\ cancelled' = cancelled /\ disk' = [disk EXCEPT ![h] = None]
        /\ task' = [task EXCEPT ![h] = 0]
    BY <1>4 DEF FinishImaging
  <2>2. ASSUME NEW k \in DOMAIN flows' PROVE Blank(k)'
    <3>1. k \in DOMAIN flows /\ flows[k] \in Flow
      BY <1>0, <2>1, <2>2
    <3>2. flows[k].host \in Hosts /\ flows[k].booking \in Bookings /\ Blank(k)
      BY <1>0, <3>1 DEF Flow
    <3>3. CASE flows[k].host = h
      <4>1. disk'[flows[k].host] # flows[k].booking
        BY <1>0, <2>1, <3>2, <3>3
      <4>. QED BY <2>1, <4>1 DEF Blank
    <3>4. CASE flows[k].host # h
      <4>1. disk'[flows[k].host] = disk[flows[k].host] /\ task'[flows[k].host] = task[flows[k].host]
        BY <1>0, <2>1, <3>2, <3>4
      <4>. QED BY <1>1, <2>1, <3>2, <4>1 DEF Blank
    <3>. QED BY <3>3, <3>4
  <2>. QED BY <2>2, BlankAll
<1>5. ASSUME NEW j \in DOMAIN flows, FlowStep(j) PROVE InvWatched' /\ CleanedMachinesBlank'
  <2>1. /\ <<flows[j].stage, flows'[j].stage>> \in Moves
        /\ flows'[j].host = flows[j].host /\ flows'[j].kind = flows[j].kind
        /\ flows'[j].booking = flows[j].booking
        /\ flows[j].stage # "find" => flows'[j].task = flows[j].task
        /\ flows[j].blind => flows'[j].blind
        /\ DOMAIN flows' = DOMAIN flows
        /\ \A k \in DOMAIN flows : k # j => flows'[k] = flows[k]
    BY <1>0, <1>5, FlowShape, FlowMove, ZenonT(60)
  <2>2. cancelled \subseteq cancelled'
    BY <1>0, <1>5, FogWrites
  <2>3. flows[j].host \in Hosts
    <3>1. flows[j] \in Flow
      BY <1>0
    <3>. QED BY <3>1 DEF Flow
  <2>4. ASSUME NEW i \in DOMAIN flows, flows[i].kind = "clean",
               flows[i].booking \notin overrun \cup moved,
               disk[flows[i].host] # flows[i].booking
        PROVE  disk'[flows[i].host] # flows[i].booking
    <3>1. flows[i].host \in Hosts /\ flows[i].booking \in Bookings
      <4>1. flows[i] \in Flow
        BY <1>0
      <4>. QED BY <4>1 DEF Flow
    <3>2. CASE disk' = disk
      BY <2>4, <3>2
    <3>3. CASE /\ flows[j].stage = "install" /\ flows[j].kind = "deploy"
               /\ disk' = [disk EXCEPT ![flows[j].host] = flows[j].booking]
      <4>1. flows[j].booking # flows[i].booking
        <5>1. i \in CleanFlows(flows[i].booking) /\ Running(flows[j])
          BY <2>4, <3>3 DEF CleanFlows, Running
        <5>2. flows[j].booking = flows[i].booking => j \in DeployFlows(flows[i].booking)
          BY <3>3 DEF DeployFlows
        <5>. QED BY <1>0, <2>4, <3>1, <5>1, <5>2, EndedNotInstalled
      <4>. QED BY <1>0, <2>4, <3>1, <3>3, <4>1
    <3>. QED BY <1>0, <1>5, <3>2, <3>3, FogWrites
  <2>5. ASSUME NEW i \in DOMAIN flows, i # j PROVE Blank(i)'
    <3>1. flows'[i] = flows[i] /\ Blank(i) /\ flows[i].host \in Hosts
      <4>1. flows[i] \in Flow
        BY <1>0
      <4>. QED BY <1>0, <2>1, <2>5, <4>1 DEF Flow
    <3>2. ASSUME flows[i].task # 0, task[flows[i].host] = flows[i].task,
                 flows[i].task \notin cancelled'
          PROVE  task'[flows[i].host] = flows[i].task
      BY <1>0, <1>5, <2>3, <3>1, <3>2, FogWrites
    <3>. QED BY <1>1, <2>2, <2>4, <3>1, <3>2 DEF Blank
  <2>6. Blank(j)'
    <3>. SUFFICES ASSUME flows[j].kind = "clean", flows'[j].task \notin cancelled',
                         flows[j].booking \notin overrun \cup moved
                  PROVE  /\ flows'[j].stage = "watch" =>
                              \/ disk'[flows[j].host] # flows[j].booking
                              \/ flows'[j].task # 0 /\ task'[flows[j].host] = flows'[j].task
                         /\ flows'[j].stage \in {"revoke", "done"} /\ ~flows'[j].blind
                              => disk'[flows[j].host] # flows[j].booking
      BY <1>1, <2>1 DEF Blank
    <3>1. flows[j].stage \notin {"install", "user", "save"} /\ Blank(j)
      BY <1>0 DEF InvLoaded
    <3>2. CASE flows[j].stage = "find"
      <4>1. flows'[j].stage = "watch" => flows'[j].task = task[flows[j].host]
                                         /\ task[flows[j].host] # 0
        BY <1>0, <1>5, <3>2, FogWrites
      <4>2. task' = task
        BY <1>0, <1>5, <3>2, FogWrites
      <4>. QED BY <2>1, <3>2, <4>1, <4>2 DEF Moves
    <3>3. CASE flows[j].stage = "watch"
      <4>1. flows'[j].blind \/ task[flows[j].host] # flows[j].task
        BY <1>0, <1>5, <3>3, FogWrites
      <4>2. flows'[j].stage # "watch" /\ flows[j].task \notin cancelled
        BY <2>1, <2>2, <3>3 DEF Moves
      <4>3. flows'[j].blind \/ disk[flows[j].host] # flows[j].booking
        BY <3>1, <3>3, <4>1, <4>2 DEF Blank
      <4>. QED BY <2>4, <4>2, <4>3
    <3>4. CASE flows[j].stage = "revoke"
      <4>1. flows'[j].stage = "done" /\ flows[j].task \notin cancelled
        BY <2>1, <2>2, <3>4 DEF Moves
      <4>. QED BY <2>1, <2>4, <3>1, <3>4, <4>1 DEF Blank
    <3>5. CASE flows[j].stage = "image"
      BY <2>1, <3>5 DEF Moves
    <3>. QED BY <2>1, <3>1, <3>2, <3>3, <3>4, <3>5 DEF Moves
  <2>. QED BY <2>1, <2>5, <2>6, BlankAll
<1>. QED BY <1>2, <1>3, <1>4, <1>5 DEF Next

(* A machine loses what was installed on it to a workflow of another       *)
(* booking, or to one that could not ask FOG.                              *)
LEMMA MachineKept ==
  ASSUME DInv, Next, NEW h \in Hosts, NEW b \in Bookings, disk[h] = b, disk'[h] # b,
         dash[b] # None, ~Over(dash[b]), b \notin moved
  PROVE  \E i \in DOMAIN flows :
            /\ flows[i].host = h /\ (flows[i].booking # b \/ flows[i].blind)
            /\ task[h] = i \/ flows'[i] # flows[i]
<1>0. /\ TypeOK /\ InvLoaded /\ InvTasks /\ InvDisks /\ Once(b) /\ Times(b)
      /\ disk \in [Hosts -> Bookings \cup {None}] /\ flows \in Seq(Flow)
      /\ task \in [Hosts -> Nat] /\ None \notin Bookings
  BY FogAssumption DEF DInv, UInv, IInv, InvOnce, InvTimes, TypeOK
<1>1. CASE \/ Tick \/ (\E c \in Bookings : ChangeBooking(c)) \/ SensorStep \/ Restart
  BY <1>0, <1>1, FogBeside
<1>2. ASSUME NEW g \in Hosts, FinishImaging(g)
      PROVE  \E i \in DOMAIN flows :
                /\ flows[i].host = h /\ (flows[i].booking # b \/ flows[i].blind)
                /\ task[h] = i \/ flows'[i] # flows[i]
  <2>1. g = h /\ task[h] # 0
    BY <1>0, <1>2 DEF FinishImaging
  <2>2. PICK i \in DOMAIN flows : i = task[h]
    BY <1>0, <2>1 DEF InvTasks
  <2>3. /\ flows[i].host = h /\ flows[i] \in Flow
        /\ \/ flows[i].stage = "find" \/ flows[i].blind \/ flows[i].stage = "watch"
    BY <1>0, <2>1, <2>2 DEF InvTasks
  <2>4. ASSUME flows[i].booking = b, ~flows[i].blind PROVE FALSE
    <3>1. CleanFlows(b) = {}
      BY <1>0 DEF Once, Ended, Times, Over
    <3>2. i \in DeployFlows(b)
      BY <2>3, <2>4, <3>1 DEF CleanFlows, DeployFlows, Flow
    <3>3. PICK j \in DeployFlows(b) : flows[j].stage \in {"user", "save", "done", "failed"}
      BY <1>0 DEF InvDisks
    <3>4. i = j
      BY <1>0, <3>2, <3>3 DEF Once
    <3>. QED BY <2>3, <2>4, <3>3, <3>4
  <2>. QED BY <2>2, <2>3, <2>4
<1>3. ASSUME NEW i \in DOMAIN flows, FlowStep(i)
      PROVE  \E k \in DOMAIN flows :
                /\ flows[k].host = h /\ (flows[k].booking # b \/ flows[k].blind)
                /\ task[h] = k \/ flows'[k] # flows[k]
  <2>1. flows[i].host = h /\ flows[i].booking # b
    BY <1>0, <1>3, FogWrites
  <2>2. flows'[i] # flows[i]
    BY <1>0, <1>3, FlowShape DEF Moves
  <2>. QED BY <2>1, <2>2
<1>. QED BY <1>1, <1>2, <1>3 DEF Next

-----------------------------------------------------------------------------
(* The results about users and machines. *)

(* The invariant, with what it says of users, tasks and disks.             *)
THEOREM FogMachines == Spec => []DInv
<1>1. Init => DInv
  <2>. SUFFICES ASSUME Init PROVE DInv
    OBVIOUS
  <2>1. IInv
    <3>1. InvLoaded
      BY DEF Init, InvLoaded, Starting, Ending
    <3>. QED BY <3>1, TypeInit, ListInit, TimesInit, OnceInit DEF IInv
  <2>2. \A b : Deploying(b) = {}
    BY DEF Init, Deploying, DeployFlows
  <2>3. InvDeployed /\ InvKeyed
    BY <2>2 DEF Init, InvDeployed, InvKeyed, Deployed, Keyed, Listed, Starting, Ending
  <2>4. InvUsers
    BY DEF Init, InvUsers, UsersTraceable
  <2>5. InvTasks /\ InvDisks /\ InvWatched /\ CleanedMachinesBlank
    BY DEF Init, InvTasks, InvDisks, InvWatched, CleanedMachinesBlank
  <2>. QED BY <2>1, <2>3, <2>4, <2>5 DEF UInv, DInv
<1>2. IInv /\ DInv /\ IInv' /\ [Next]_vars => DInv'
  BY DeployedStep, UsersStep, TasksStep, DisksStep, BlankStep DEF DInv, UInv
<1>. QED BY <1>1, <1>2, FogInvariant, PTL DEF Spec

(* Every VPN user can be traced to the deployment, the record or the clean *)
(* workflow that has its key, but for the losses named in the property.    *)
THEOREM UsersTraced == Spec => []UsersTraceable
<1>1. DInv => UsersTraceable
  BY DEF DInv, UInv, InvUsers
<1>. QED BY <1>1, FogMachines, PTL

(* A clean workflow that has seen the end of its imaging leaves a machine  *)
(* that does not carry its booking.                                        *)
THEOREM MachinesBlank == Spec => []CleanedMachinesBlank
<1>1. DInv => CleanedMachinesBlank
  BY DEF DInv
<1>. QED BY <1>1, FogMachines, PTL

(* A running booking keeps its machine from its own workflows.             *)
THEOREM MachinesKept == Spec => InstalledMachineKept
<1>1. DInv /\ [Next]_vars =>
        [\A h \in Hosts, b \in Bookings :
          disk[h] = b /\ disk'[h] # b /\ dash[b] # None /\ ~Over(dash[b]) /\ b \notin moved
          => \E i \in DOMAIN flows :
                /\ flows[i].host = h /\ (flows[i].booking # b \/ flows[i].blind)
                /\ task[h] = i \/ flows'[i] # flows[i]]_vars
  BY MachineKept
<1>. QED BY <1>1, FogMachines, PTL DEF Spec, InstalledMachineKept
=============================================================================
