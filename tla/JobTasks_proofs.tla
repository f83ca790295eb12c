-------------------------- MODULE JobTasks_proofs --------------------------
(***************************************************************************)
(* Proofs about JobTasks for any booking and any number of overlapping     *)
(* runs of booking_poll.                                                   *)
(***************************************************************************)
EXTENDS JobTasks, TLAPS

(* Replacing the record of one run by another record.                      *)
LEMMA PollUpdate ==
  ASSUME poll \in [Pollers -> Polls], NEW p \in Pollers, NEW r \in Polls,
         poll' = [poll EXCEPT ![p] = r]
  PROVE  /\ poll' \in [Pollers -> Polls]
         /\ poll'[p] = r
         /\ \A q \in Pollers \ {p} : poll'[q] = poll[q]
OBVIOUS

(* A run, and a web worker, with nothing to do.                            *)
LEMMA IdlePollType == IdlePoll \in Polls
BY DEF IdlePoll, Polls

LEMMA IdleWebType == /\ IdleWeb \in Webs /\ IdleWeb.op = "idle"
                     /\ [IdleWeb EXCEPT !.op = "mail"] \in Webs
BY DEF IdleWeb, Webs

(* Going on to the next class.                                             *)
LEMMA NextClassType ==
  ASSUME NEW w \in Webs, NEW f \in BOOLEAN
  PROVE  /\ [w EXCEPT !.next = @ + 1, !.ok = f] \in Webs
         /\ [w EXCEPT !.next = @ + 1, !.ok = f].op = w.op
<1>1. w.next + 1 \in Nat
  BY DEF Webs
<1>2. CASE f = TRUE
  BY <1>1, <1>2 DEF Webs
<1>3. CASE f = FALSE
  BY <1>1, <1>3 DEF Webs
<1>. QED BY <1>2, <1>3

(* get_tasklist lists the tasks of every kind.                             *)
LEMMA EveryClass == /\ Len(Classes) = 5
                    /\ \A t \in Tasks : \E i \in 1..5 : t[1] \in Classes[i]
<1>1. Len(Classes) = 5
  BY DEF Classes
<1>2. ASSUME NEW t \in Tasks PROVE \E i \in 1..5 : t[1] \in Classes[i]
  <2>1. t[1] \in {"hardware", "network", "vpn", "ssh", "software", "snapshot"}
    BY DEF Tasks
  <2>2. /\ "hardware" \in Classes[1] /\ "vpn" \in Classes[2] /\ "ssh" \in Classes[2]
        /\ "network" \in Classes[3] /\ "software" \in Classes[4] /\ "snapshot" \in Classes[5]
    BY DEF Classes
  <2>. QED BY <2>1, <2>2
<1>. QED BY <1>1, <1>2

(* Types in the initial state.                                             *)
LEMMA TypeInit == Init => TypeOK
<1>. SUFFICES ASSUME Init PROVE TypeOK
  OBVIOUS
<1>1. web \in Webs /\ web.op = "idle"
  BY DEF Init, IdleWeb, Webs
<1>. QED BY <1>1, IdlePollType DEF Init, TypeOK, Statuses

----------------------------------------------------------------------------
(* Types are kept by every step.                                           *)
LEMMA TypeStep == TypeOK /\ [Next]_vars => TypeOK'
<1>. SUFFICES ASSUME TypeOK, [Next]_vars PROVE TypeOK'
  OBVIOUS
<1>. USE NullAssumption DEF histVars, taskVars
<1>1. ASSUME NEW T \in SUBSET Tasks, MakeJob(T) PROVE TypeOK'
  BY <1>1 DEF MakeJob, TypeOK, Statuses
<1>2. ASSUME NEW i \in Snapshots, MakeSnapshot(i) PROVE TypeOK'
  BY <1>2 DEF MakeSnapshot, TypeOK, Statuses
<1>3. ASSUME NEW h \in Hosts, StartReimage(h) PROVE TypeOK'
  <2>. DEFINE t == <<"hardware", h>>
  <2>1. t \in Tasks /\ order[t] \in {"deploy", "cleanup"}
    BY <1>3 DEF StartReimage, Existing, TypeOK
  <2>2. web' \in Webs /\ web'.op = "image" /\ web'.t = t /\ web'.row = order[t]
    BY <1>3, <2>1 DEF StartReimage, IdleWeb, Webs
  <2>3. spent' \in [{"reimage", "message", "web", "worker"} -> Nat]
    BY <1>3 DEF StartReimage, Spend, TypeOK
  <2>. QED BY <1>3, <2>1, <2>2, <2>3 DEF StartReimage, TypeOK
<1>4. CASE SaveImage
  <2>1. web.t \in Tasks /\ web.row \in {"deploy", "cleanup"}
    BY <1>4 DEF SaveImage, TypeOK
  <2>2. web' \in Webs /\ web'.op \in {"idle", "reset"}
    <3>. DEFINE net == <<"network", web.t[2]>>
                T == OfKinds({"ssh"}) \cup {web.t, net}
    <3>1. CASE web' = IdleWeb
      BY <3>1 DEF IdleWeb, Webs
    <3>2. CASE net \in Existing /\ web' = [IdleWeb EXCEPT !.op = "reset", !.todo = T]
      <4>1. T \subseteq Tasks
        BY <2>1, <3>2 DEF OfKinds, Existing
      <4>. HIDE DEF T
      <4>. QED BY <3>2, <4>1 DEF IdleWeb, Webs
    <3>. QED BY <1>4, <3>1, <3>2 DEF SaveImage
  <2>. QED BY <1>4, <2>1, <2>2 DEF SaveImage, Replace, TypeOK
<1>5. ASSUME NEW t \in Tasks, ResetForImage(t) PROVE TypeOK'
  <2>1. web' \in Webs /\ web'.op \in {"idle", "reset"}
    BY <1>5 DEF ResetForImage, IdleWeb, Webs, TypeOK
  <2>. QED BY <1>5, <2>1 DEF ResetForImage, Replace, TypeOK, Statuses
<1>6. ASSUME NEW t \in Tasks, NEW s \in LabPosts \cup {"message"}, NEW f \in BOOLEAN,
             LoadTask(t, s, f)
      PROVE TypeOK'
  <2>1. s \in {"message", "CURRENT", "DONE", "ERROR"} /\ status[t] \in Statuses \ {"absent"}
    BY <1>6, PostsAssumption DEF LoadTask, Existing, TypeOK
  <2>2. /\ web' \in Webs /\ web'.op = "save" /\ web'.t = t /\ web'.row = status[t]
        /\ web'.post = s
    BY <1>6, <2>1 DEF LoadTask, IdleWeb, Webs
  <2>3. spent' \in [{"reimage", "message", "web", "worker"} -> Nat]
    BY <1>6 DEF LoadTask, Spend, TypeOK
  <2>. QED BY <1>6, <2>1, <2>2, <2>3 DEF LoadTask, TypeOK
<1>7. CASE SaveTask
  <2>. DEFINE new == IF web.post = "message" THEN web.row ELSE web.post
  <2>1. web.t \in Tasks /\ new \in Statuses
    BY <1>7 DEF SaveTask, TypeOK, Webs, Statuses
  <2>2. web' \in Webs /\ web'.op = "check"
    BY <1>7 DEF SaveTask, IdleWeb, Webs
  <2>3. status' \in [Tasks -> Statuses]
    BY <1>7, <2>1 DEF SaveTask, TypeOK
  <2>4. hand' \subseteq Tasks /\ late' \subseteq Tasks /\ answered' \subseteq Tasks
    BY <1>7, <2>1 DEF SaveTask, TypeOK
  <2>5. crossed' \in {crossed, crossed \ {web.t}, crossed \cup {web.t}}
    BY <1>7 DEF SaveTask
  <2>. QED BY <1>7, <2>1, <2>2, <2>3, <2>4, <2>5 DEF SaveTask, TypeOK
<1>8. CASE CheckClass
  <2>1. web' \in Webs /\ web'.op \in {"check", "mail", "idle"}
    <3>. DEFINE f == web.ok /\ \A t \in OfKinds(Classes[web.next]) : status[t] = "DONE"
    <3>0. f \in BOOLEAN
      OBVIOUS
    <3>1. web \in Webs /\ f \in BOOLEAN /\ web.op = "check"
      BY <1>8, <3>0 DEF CheckClass, TypeOK
    <3>2. \/ web' = [web EXCEPT !.next = @ + 1, !.ok = f]
          \/ web' = [IdleWeb EXCEPT !.op = "mail"]
          \/ web' = IdleWeb
      BY <1>8 DEF CheckClass
    <3>. HIDE DEF f
    <3>3. CASE web' = [web EXCEPT !.next = @ + 1, !.ok = f]
      BY <3>1, <3>3, NextClassType
    <3>4. CASE web' = [IdleWeb EXCEPT !.op = "mail"]
      BY <3>4, IdleWebType DEF IdleWeb
    <3>. QED BY <3>2, <3>3, <3>4, IdleWebType
  <2>. QED BY <1>8, <2>1 DEF CheckClass, TypeOK
<1>9. CASE SendMail \/ WebCrash
  <2>1. web' \in Webs /\ web'.op = "idle"
    BY <1>9, IdleWebType DEF SendMail, WebCrash
  <2>2. crossed' \subseteq Tasks
    BY <1>9 DEF SendMail, WebCrash, TypeOK, Webs
  <2>. QED BY <1>9, <2>1, <2>2 DEF SendMail, WebCrash, Spend, TypeOK
<1>10. CASE EndBooking
  BY <1>10 DEF EndBooking, TypeOK
<1>11. ASSUME NEW t \in Tasks, FetchTask(t) PROVE TypeOK'
  BY <1>11 DEF FetchTask, TypeOK
<1>12. ASSUME NEW p \in Pollers, PickJob(p) PROVE TypeOK'
  <2>. DEFINE r == [IdlePoll EXCEPT !.at = "clean", !.todo = OfKinds(CleanedKinds)]
  <2>1. r \in Polls
    BY DEF IdlePoll, Polls, OfKinds, Existing
  <2>2. poll' \in [Pollers -> Polls]
    BY <1>12, <2>1 DEF PickJob, TypeOK
  <2>. QED BY <1>12, <2>2 DEF PickJob, TypeOK
<1>13. ASSUME NEW p \in Pollers, NEW t \in Tasks, CleanConfig(p, t) PROVE TypeOK'
  <2>. DEFINE r == [poll[p] EXCEPT !.half = t, !.todo = poll[p].todo \ {t}]
  <2>1. r \in Polls
    BY ZenonT(60) DEF Polls, TypeOK
  <2>2. poll' \in [Pollers -> Polls]
    BY <1>13, <2>1 DEF CleanConfig, TypeOK
  <2>3. order' \in [Tasks -> {"deploy", "cleanup"}]
    BY <1>13 DEF CleanConfig, TypeOK
  <2>. QED BY <1>13, <2>2, <2>3 DEF CleanConfig, Replace, TypeOK
<1>14. ASSUME NEW p \in Pollers, CleanStatus(p) PROVE TypeOK'
  <2>. DEFINE r == [poll[p] EXCEPT !.half = None]
  <2>1. r \in Polls
    BY DEF Polls, TypeOK
  <2>2. poll' \in [Pollers -> Polls]
    BY <1>14, <2>1 DEF CleanStatus, TypeOK
  <2>3. status' \in [Tasks -> Statuses]
    BY <1>14 DEF CleanStatus, TypeOK, Statuses
  <2>. QED BY <1>14, <2>2, <2>3 DEF CleanStatus, TypeOK
<1>15. ASSUME NEW p \in Pollers, CompleteJob(p) PROVE TypeOK'
  <2>. DEFINE r == [poll[p] EXCEPT !.at = "notify"]
  <2>1. r \in Polls
    BY DEF Polls, TypeOK
  <2>2. poll' \in [Pollers -> Polls]
    BY <1>15, <2>1 DEF CompleteJob, TypeOK
  <2>. QED BY <1>15, <2>2 DEF CompleteJob, TypeOK
<1>16. ASSUME NEW p \in Pollers, Notify(p) \/ PollCrash(p) PROVE TypeOK'
  <2>1. poll' \in [Pollers -> Polls]
    BY <1>16, IdlePollType DEF Notify, PollCrash, TypeOK
  <2>. QED BY <1>16, <2>1 DEF Notify, PollCrash, Spend, TypeOK
<1>17. CASE UNCHANGED vars
  BY <1>17 DEF vars, TypeOK
<1>. QED
  BY <1>1, <1>2, <1>3, <1>4, <1>5, <1>6, <1>7, <1>8, <1>9, <1>10, <1>11, <1>12, <1>13,
     <1>14, <1>15, <1>16, <1>17
     DEF Next, WebRequest, WebProgress, LabStep, LabMessage, PollStep

----------------------------------------------------------------------------
(* What the steps of the web worker do to its request.                     *)
LEMMA WebRecords ==
  ASSUME TypeOK
  PROVE  /\ \A h \in Hosts : StartReimage(h) =>
              /\ web'.op = "image" /\ web'.t = <<"hardware", h>>
              /\ web'.row = order[<<"hardware", h>>]
         /\ SaveImage =>
              \/ web' = IdleWeb /\ crossed' = crossed \cup {web.t}
              \/ /\ web'.op = "reset" /\ web.t \in web'.todo /\ crossed' = crossed
                 /\ web'.todo \subseteq Existing \cup {web.t}
         /\ \A t \in Tasks : ResetForImage(t) =>
              \/ web' = IdleWeb /\ web.todo = {t}
              \/ web'.op = "reset" /\ web'.todo = web.todo \ {t}
         /\ \A t \in Tasks, s \in LabPosts \cup {"message"}, f \in BOOLEAN : LoadTask(t, s, f) =>
              /\ web'.op = "save" /\ web'.t = t /\ web'.row = status[t]
              /\ web'.post = s /\ web'.fresh = f
         /\ SaveTask => web'.op = "check" /\ web'.ok = TRUE /\ web'.next = 1
<1>1. ASSUME NEW h \in Hosts, StartReimage(h)
      PROVE  /\ web'.op = "image" /\ web'.t = <<"hardware", h>>
             /\ web'.row = order[<<"hardware", h>>]
  BY <1>1 DEF StartReimage, IdleWeb
<1>2. ASSUME SaveImage
      PROVE  \/ web' = IdleWeb /\ crossed' = crossed \cup {web.t}
             \/ /\ web'.op = "reset" /\ web.t \in web'.todo /\ crossed' = crossed
                /\ web'.todo \subseteq Existing \cup {web.t}
  <2>. DEFINE net == <<"network", web.t[2]>>
              T == OfKinds({"ssh"}) \cup {web.t, net}
  <2>1. CASE /\ net \in Existing /\ crossed' = crossed
             /\ web' = [IdleWeb EXCEPT !.op = "reset", !.todo = T]
    <3>1. web.t \in T /\ T \subseteq Existing \cup {web.t}
      BY <2>1 DEF OfKinds
    <3>. HIDE DEF T
    <3>. QED BY <2>1, <3>1 DEF IdleWeb
  <2>2. CASE net \notin Existing /\ web' = IdleWeb /\ crossed' = crossed \cup {web.t}
    BY <2>2
  <2>3. IF net \in Existing
        THEN web' = [IdleWeb EXCEPT !.op = "reset", !.todo = T] /\ UNCHANGED crossed
        ELSE web' = IdleWeb /\ crossed' = crossed \cup {web.t}
    BY <1>2 DEF SaveImage
  <2>. QED BY <2>1, <2>2, <2>3
<1>3. ASSUME NEW t \in Tasks, ResetForImage(t)
      PROVE  \/ web' = IdleWeb /\ web.todo = {t}
             \/ web'.op = "reset" /\ web'.todo = web.todo \ {t}
  BY <1>3 DEF ResetForImage, TypeOK, Webs
<1>4. ASSUME NEW t \in Tasks, NEW s \in LabPosts \cup {"message"}, NEW f \in BOOLEAN,
             LoadTask(t, s, f)
      PROVE  /\ web'.op = "save" /\ web'.t = t /\ web'.row = status[t]
             /\ web'.post = s /\ web'.fresh = f
  BY <1>4 DEF LoadTask, IdleWeb
<1>5. ASSUME SaveTask PROVE web'.op = "check" /\ web'.ok = TRUE /\ web'.next = 1
  BY <1>5 DEF SaveTask, IdleWeb
<1>. QED BY <1>1, <1>2, <1>3, <1>4, <1>5

(* What a check makes of the class it reads.                               *)
LEMMA CheckRecord ==
  ASSUME TypeOK, CheckClass
  PROVE  \/ web' = IdleWeb
         \/ /\ web.ok /\ \A t \in OfKinds(Classes[web.next]) : status[t] = "DONE"
            /\ web.next >= Len(Classes) /\ web'.op = "mail"
         \/ /\ web.next < Len(Classes) /\ web'.op = "check" /\ web'.next = web.next + 1
            /\ web'.ok => /\ web.ok
                          /\ \A t \in OfKinds(Classes[web.next]) : status[t] = "DONE"
<1>. DEFINE f == web.ok /\ \A t \in OfKinds(Classes[web.next]) : status[t] = "DONE"
<1>1. /\ web \in Webs /\ Len(Classes) = 5 /\ web.op = "check"
      /\ IF web.next < Len(Classes) THEN web' = [web EXCEPT !.next = @ + 1, !.ok = f]
         ELSE IF f THEN web' = [IdleWeb EXCEPT !.op = "mail"] ELSE web' = IdleWeb
  BY EveryClass DEF CheckClass, TypeOK
<1>2. CASE web.next < Len(Classes)
  <2>1. web' = [web EXCEPT !.next = @ + 1, !.ok = f]
    BY <1>1, <1>2
  <2>2. web'.op = "check" /\ web'.next = web.next + 1 /\ web'.ok = f
    <3>. HIDE DEF f
    <3>. QED BY <1>1, <2>1 DEF Webs
  <2>. QED BY <1>2, <2>2
<1>3. CASE ~ (web.next < Len(Classes)) /\ f
  <2>1. web' = [IdleWeb EXCEPT !.op = "mail"]
    BY <1>1, <1>3
  <2>2. web.next >= Len(Classes) /\ web'.op = "mail"
    BY <1>1, <1>3, <2>1 DEF IdleWeb, Webs
  <2>. QED BY <1>3, <2>2
<1>. QED BY <1>1, <1>2, <1>3

----------------------------------------------------------------------------
(* Nothing asks for the cleanup before it begins, and no step works on a   *)
(* task that does not exist.                                               *)
LEMMA BegunStep ==
  TypeOK /\ InvBegun /\ InvLoaded /\ InvRuns /\ [Next]_vars => InvBegun' /\ InvLoaded'
<1>. SUFFICES ASSUME TypeOK, InvBegun, InvLoaded, InvRuns, [Next]_vars
              PROVE  InvBegun' /\ InvLoaded'
  OBVIOUS
<1>. USE NullAssumption DEF histVars, taskVars
<1>1. ASSUME NEW T \in SUBSET Tasks, MakeJob(T) PROVE InvBegun' /\ InvLoaded'
  <2>1. web.op = "idle" /\ ~begun /\ UNCHANGED <<web, poll, begun, order, ended>> /\ job' = "open"
    BY <1>1 DEF MakeJob, InvBegun
  <2>2. \A p \in Pollers : poll[p].at = "idle"
    BY <2>1 DEF InvBegun, TypeOK, Polls
  <2>. QED BY <2>1, <2>2 DEF InvBegun, InvLoaded, Cleaned
<1>2. ASSUME NEW i \in Snapshots, MakeSnapshot(i) PROVE InvBegun' /\ InvLoaded'
  <2>1. web.op = "idle" /\ job # "none" /\ UNCHANGED <<web, poll, begun, order, ended, job>>
    BY <1>2 DEF MakeSnapshot
  <2>2. Existing \subseteq Existing'
    BY <1>2 DEF MakeSnapshot, Existing, TypeOK
  <2>. QED BY <2>1, <2>2 DEF InvBegun, InvLoaded, Cleaned
<1>3. ASSUME NEW h \in Hosts, StartReimage(h) PROVE InvBegun' /\ InvLoaded'
  <2>. DEFINE t == <<"hardware", h>>
  <2>1. /\ ~begun /\ t \in Existing /\ UNCHANGED <<status, poll, begun, order, ended, job>>
    BY <1>3 DEF StartReimage, InvBegun
  <2>2. order[t] = "deploy"
    BY <2>1 DEF InvBegun, Cleaned, Existing, TypeOK
  <2>3. web'.op = "image" /\ web'.t = t /\ web'.row = "deploy"
    BY <1>3, <2>2, WebRecords
  <2>. QED BY <2>1, <2>3 DEF InvBegun, InvLoaded, Cleaned, Existing
<1>4. CASE SaveImage
  <2>1. /\ web.op = "image" /\ web.row = "deploy" /\ order' = [order EXCEPT ![web.t] = web.row]
        /\ UNCHANGED <<status, poll, begun, ended, job>> /\ web.t \in Existing
    BY <1>4 DEF SaveImage, InvBegun, InvLoaded
  <2>2. Cleaned' \subseteq Cleaned
    BY <2>1 DEF Cleaned, TypeOK
  <2>3. \/ web'.op = "idle"
        \/ web'.op = "reset" /\ web'.todo \subseteq Existing
    BY <1>4, <2>1, WebRecords, IdleWebType
  <2>. QED BY <2>1, <2>2, <2>3 DEF InvBegun, InvLoaded, Existing
<1>5. ASSUME NEW t \in Tasks, ResetForImage(t) PROVE InvBegun' /\ InvLoaded'
  <2>1. /\ web.op = "reset" /\ t \in Existing /\ UNCHANGED <<order, poll, begun, ended, job>>
        /\ status' = [status EXCEPT ![t] = "NEW"]
    BY <1>5 DEF ResetForImage, InvLoaded
  <2>2. Existing' = Existing
    BY <2>1 DEF Existing, TypeOK
  <2>3. \/ web'.op = "idle"
        \/ web'.op = "reset" /\ web'.todo \subseteq Existing
    BY <1>5, <2>1, WebRecords, IdleWebType DEF InvLoaded
  <2>. QED BY <2>1, <2>2, <2>3 DEF InvBegun, InvLoaded, Cleaned
<1>6. ASSUME NEW t \in Tasks, NEW s \in LabPosts \cup {"message"}, NEW f \in BOOLEAN,
             LoadTask(t, s, f), s = "message" => ~f
      PROVE InvBegun' /\ InvLoaded'
  <2>1. t \in Existing /\ UNCHANGED <<status, order, poll, begun, ended, job>>
    BY <1>6 DEF LoadTask
  <2>2. web'.op = "save" /\ web'.t = t /\ web'.post = s /\ web'.fresh = f
    BY <1>6, WebRecords
  <2>. QED BY <1>6, <2>1, <2>2 DEF InvBegun, InvLoaded, Cleaned, Existing
<1>7. CASE SaveTask
  <2>. DEFINE new == IF web.post = "message" THEN web.row ELSE web.post
  <2>1. /\ web.op = "save" /\ web.t \in Existing /\ status' = [status EXCEPT ![web.t] = new]
        /\ UNCHANGED <<order, poll, begun, ended, job>>
    BY <1>7 DEF SaveTask, InvLoaded
  <2>2. new # "absent"
    BY <2>1 DEF TypeOK, Webs
  <2>3. Existing' = Existing
    BY <2>1, <2>2 DEF Existing, TypeOK
  <2>4. web'.op = "check"
    BY <1>7, WebRecords
  <2>. QED BY <2>1, <2>3, <2>4 DEF InvBegun, InvLoaded, Cleaned
<1>8. CASE CheckClass
  <2>1. web'.op \in {"idle", "check", "mail"}
    BY <1>8, CheckRecord, IdleWebType
  <2>. QED BY <1>8, <2>1 DEF CheckClass, InvBegun, InvLoaded, Cleaned, Existing
<1>9. CASE SendMail \/ WebCrash
  <2>1. web'.op = "idle" /\ UNCHANGED <<status, order, poll, begun, ended, job>>
    BY <1>9, IdleWebType DEF SendMail, WebCrash
  <2>. QED BY <2>1 DEF InvBegun, InvLoaded, Cleaned, Existing
<1>10. CASE EndBooking
  BY <1>10 DEF EndBooking, InvBegun, InvLoaded, Cleaned, Existing
<1>11. ASSUME NEW t \in Tasks, FetchTask(t) PROVE InvBegun' /\ InvLoaded'
  BY <1>11 DEF FetchTask, InvBegun, InvLoaded, Cleaned, Existing
<1>12. ASSUME NEW p \in Pollers, PickJob(p) PROVE InvBegun' /\ InvLoaded'
  <2>. DEFINE r == [IdlePoll EXCEPT !.at = "clean", !.todo = OfKinds(CleanedKinds)]
  <2>1. /\ ended /\ job = "open" /\ begun' = TRUE
        /\ poll' = [poll EXCEPT ![p] = r]
        /\ UNCHANGED <<status, order, ended, job, web>>
    BY <1>12 DEF PickJob
  <2>2. r.todo \subseteq Existing /\ r.half = None
    BY DEF IdlePoll, OfKinds
  <2>. HIDE DEF r
  <2>3. poll'[p] = r /\ \A q \in Pollers \ {p} : poll'[q] = poll[q]
    BY <2>1 DEF TypeOK
  <2>. QED BY <2>1, <2>2, <2>3 DEF InvBegun, InvLoaded, Cleaned, Existing
<1>13. ASSUME NEW p \in Pollers, NEW t \in Tasks, CleanConfig(p, t) PROVE InvBegun' /\ InvLoaded'
  <2>. DEFINE r == [poll[p] EXCEPT !.half = t, !.todo = poll[p].todo \ {t}]
  <2>1. /\ poll[p].at = "clean" /\ t \in poll[p].todo /\ begun
        /\ poll' = [poll EXCEPT ![p] = r]
        /\ UNCHANGED <<status, ended, job, web, begun>>
    BY <1>13 DEF CleanConfig, InvBegun
  <2>2. r.todo \subseteq Existing /\ r.half \in Existing
    BY <2>1 DEF InvLoaded, TypeOK, Polls
  <2>. HIDE DEF r
  <2>3. poll'[p] = r /\ \A q \in Pollers \ {p} : poll'[q] = poll[q]
    BY <2>1 DEF TypeOK
  <2>. QED BY <2>1, <2>2, <2>3 DEF InvBegun, InvLoaded, Existing
<1>14. ASSUME NEW p \in Pollers, CleanStatus(p) PROVE InvBegun' /\ InvLoaded'
  <2>. DEFINE r == [poll[p] EXCEPT !.half = None]
  <2>1. /\ poll[p].at = "clean" /\ begun /\ poll[p].half \in Existing
        /\ poll' = [poll EXCEPT ![p] = r]
        /\ status' = [status EXCEPT ![poll[p].half] = "NEW"]
        /\ UNCHANGED <<order, ended, job, web, begun>>
    BY <1>14 DEF CleanStatus, InvBegun, InvRuns, InvLoaded
  <2>2. r.todo \subseteq Existing /\ r.half = None
    BY <2>1 DEF InvLoaded, TypeOK, Polls
  <2>. HIDE DEF r
  <2>3. poll'[p] = r /\ \A q \in Pollers \ {p} : poll'[q] = poll[q]
    BY <2>1 DEF TypeOK
  <2>4. Existing' = Existing
    BY <2>1 DEF Existing, TypeOK
  <2>. QED BY <2>1, <2>2, <2>3, <2>4 DEF InvBegun, InvLoaded
<1>15. ASSUME NEW p \in Pollers, CompleteJob(p) \/ Notify(p) \/ PollCrash(p)
       PROVE InvBegun' /\ InvLoaded'
  <2>1. /\ begun /\ job # "none" /\ job' \in {job, "complete"}
        /\ UNCHANGED <<status, order, ended, web, begun>>
    BY <1>15 DEF CompleteJob, Notify, PollCrash, InvBegun
  <2>2. \E r \in Polls : r.at # "clean" /\ poll' = [poll EXCEPT ![p] = r]
    <3>1. CASE CompleteJob(p)
      BY <3>1, ZenonT(60) DEF CompleteJob, TypeOK, Polls
    <3>2. CASE Notify(p) \/ PollCrash(p)
      BY <3>2, IdlePollType DEF Notify, PollCrash, IdlePoll
    <3>. QED BY <1>15, <3>1, <3>2
  <2>3. poll'[p].at # "clean" /\ \A q \in Pollers \ {p} : poll'[q] = poll[q]
    BY <2>2 DEF TypeOK
  <2>. QED BY <2>1, <2>3 DEF InvBegun, InvLoaded, Existing
<1>16. CASE UNCHANGED vars
  BY <1>16 DEF vars, InvBegun, InvLoaded, Cleaned, Existing
<1>. QED
  <2>1. ASSUME NEW t \in Tasks, LoadTask(t, "message", FALSE) PROVE InvBegun' /\ InvLoaded'
    BY <1>6, <2>1
  <2>2. ASSUME NEW t \in Tasks, NEW s \in LabPosts, NEW f \in BOOLEAN, LoadTask(t, s, f)
        PROVE InvBegun' /\ InvLoaded'
    BY <1>6, <2>2, PostsAssumption
  <2>. QED
    BY <1>1, <1>2, <1>3, <1>4, <1>5, <1>7, <1>8, <1>9, <1>10, <1>11, <1>12, <1>13,
       <1>14, <1>15, <1>16, <2>1, <2>2
       DEF Next, WebRequest, WebProgress, LabStep, LabMessage, PollStep

----------------------------------------------------------------------------
(* Runs that do not overlap complete the job, and notify, one at a time.   *)
LEMMA RunsStep == TypeOK /\ InvBegun /\ InvRuns /\ [Next]_vars => InvRuns'
<1>. SUFFICES ASSUME TypeOK, InvBegun, InvRuns, [Next]_vars PROVE InvRuns'
  OBVIOUS
<1>. USE NullAssumption DEF histVars, taskVars
<1>1. ASSUME UNCHANGED <<poll, job, notices, overlapped>> PROVE InvRuns'
  BY <1>1 DEF InvRuns
<1>2. ASSUME NEW T \in SUBSET Tasks, MakeJob(T) PROVE InvRuns'
  <2>1. job = "none" /\ job' = "open" /\ ~begun /\ UNCHANGED <<poll, notices, overlapped>>
    BY <1>2 DEF MakeJob, InvBegun
  <2>2. \A p \in Pollers : poll[p].at = "idle"
    BY <2>1 DEF InvBegun
  <2>. QED BY <2>1, <2>2 DEF InvRuns
<1>3. CASE WebProgress \/ WebCrash \/ LabStep \/ LabMessage \/ EndBooking
  <2>1. UNCHANGED <<poll, job, notices, overlapped>>
    BY <1>3 DEF WebProgress, SaveImage, ResetForImage, SaveTask, CheckClass, SendMail,
                WebCrash, LabStep, LabMessage, FetchTask, LoadTask, EndBooking
  <2>. QED BY <1>1, <2>1
<1>4. ASSUME \/ \E i \in Snapshots : MakeSnapshot(i)
             \/ \E h \in Hosts : StartReimage(h)
      PROVE InvRuns'
  <2>1. UNCHANGED <<poll, job, notices, overlapped>>
    BY <1>4 DEF MakeSnapshot, StartReimage
  <2>. QED BY <1>1, <2>1
<1>5. ASSUME NEW p \in Pollers, PickJob(p) PROVE InvRuns'
  <2>. DEFINE r == [IdlePoll EXCEPT !.at = "clean", !.todo = OfKinds(CleanedKinds)]
  <2>1. /\ job = "open" /\ poll' = [poll EXCEPT ![p] = r] /\ UNCHANGED <<job, notices>>
        /\ overlapped' = (overlapped \/ \E q \in Pollers : poll[q].at = "clean")
    BY <1>5 DEF PickJob
  <2>2. r.at = "clean" /\ r.half = None
    BY DEF IdlePoll
  <2>. HIDE DEF r
  <2>3. poll'[p] = r /\ \A q \in Pollers \ {p} : poll'[q] = poll[q]
    BY <2>1 DEF TypeOK
  <2>4. ~overlapped' => ~overlapped /\ \A q \in Pollers : poll[q].at = "idle"
    <3>1. \A q \in Pollers : poll[q].at \in {"idle", "clean", "notify"}
      BY DEF TypeOK, Polls
    <3>2. \A q \in Pollers : poll[q].at # "notify"
      BY <2>1 DEF InvRuns
    <3>. QED BY <2>1, <3>1, <3>2
  <2>. QED BY <2>1, <2>2, <2>3, <2>4 DEF InvRuns
<1>6. ASSUME NEW p \in Pollers, CleanStatus(p) \/ \E t \in Tasks : CleanConfig(p, t)
      PROVE InvRuns'
  <2>1. /\ UNCHANGED <<job, notices, overlapped>> /\ poll[p].at = "clean"
        /\ \E r \in Polls : r.at = "clean" /\ poll' = [poll EXCEPT ![p] = r]
    <3>1. CASE CleanStatus(p)
      BY <3>1, ZenonT(60) DEF CleanStatus, InvRuns, TypeOK, Polls
    <3>2. ASSUME NEW t \in Tasks, CleanConfig(p, t)
          PROVE  \E r \in Polls : r.at = "clean" /\ poll' = [poll EXCEPT ![p] = r]
      BY <3>2, ZenonT(60) DEF CleanConfig, TypeOK, Polls
    <3>. QED BY <1>6, <3>1, <3>2 DEF CleanConfig
  <2>2. /\ poll'[p].at = "clean"
        /\ \A q \in Pollers : poll'[q].at = poll[q].at
        /\ \A q \in Pollers \ {p} : poll'[q] = poll[q]
    BY <2>1 DEF TypeOK
  <2>. QED BY <2>1, <2>2 DEF InvRuns
<1>7. ASSUME NEW p \in Pollers, CompleteJob(p) PROVE InvRuns'
  <2>. DEFINE r == [poll[p] EXCEPT !.at = "notify"]
  <2>1. /\ poll[p].at = "clean" /\ poll[p].half = None /\ poll[p].todo = {}
        /\ job' = "complete" /\ poll' = [poll EXCEPT ![p] = r]
        /\ UNCHANGED <<notices, overlapped>>
    BY <1>7 DEF CompleteJob
  <2>2. r.at = "notify" /\ r.half = None /\ r.todo = {}
    BY <2>1 DEF TypeOK, Polls
  <2>. HIDE DEF r
  <2>3. poll'[p] = r /\ \A q \in Pollers \ {p} : poll'[q] = poll[q]
    BY <2>1 DEF TypeOK
  <2>4. ~overlapped => /\ \A q \in Pollers \ {p} : poll[q].at = "idle"
                       /\ notices = 0
    BY <2>1 DEF InvRuns, TypeOK
  <2>. QED BY <2>1, <2>2, <2>3, <2>4 DEF InvRuns
<1>8. ASSUME NEW p \in Pollers, Notify(p) PROVE InvRuns'
  <2>1. /\ poll[p].at = "notify" /\ notices' = notices + 1 /\ notices \in Nat
        /\ poll' = [poll EXCEPT ![p] = IdlePoll] /\ UNCHANGED <<job, overlapped>>
    BY <1>8 DEF Notify, TypeOK
  <2>2. /\ poll'[p].at = "idle" /\ poll'[p].half = None
        /\ \A q \in Pollers \ {p} : poll'[q] = poll[q]
    BY <2>1 DEF TypeOK, IdlePoll
  <2>3. ~overlapped => /\ \A q \in Pollers \ {p} : poll[q].at = "idle"
                       /\ notices = 0
    BY <2>1 DEF InvRuns
  <2>. QED BY <2>1, <2>2, <2>3 DEF InvRuns
<1>9. ASSUME NEW p \in Pollers, PollCrash(p) PROVE InvRuns'
  <2>1. poll' = [poll EXCEPT ![p] = IdlePoll] /\ UNCHANGED <<job, notices, overlapped>>
    BY <1>9 DEF PollCrash
  <2>2. /\ poll'[p].at = "idle" /\ poll'[p].half = None
        /\ \A q \in Pollers \ {p} : poll'[q] = poll[q]
    BY <2>1 DEF TypeOK, IdlePoll
  <2>. QED BY <2>1, <2>2 DEF InvRuns
<1>10. CASE UNCHANGED vars
  BY <1>1, <1>10 DEF vars
<1>. QED
  BY <1>2, <1>3, <1>4, <1>5, <1>6, <1>7, <1>8, <1>9, <1>10 DEF Next, WebRequest, PollStep

(* Once a run has begun, and while runs go on, the cleanup has begun.      *)
LEMMA RunsBegun ==
  ASSUME TypeOK, InvBegun, InvRuns, NEW p \in Pollers, PollStep(p)
  PROVE  begun'
<1>1. CASE PickJob(p)
  BY <1>1 DEF PickJob
<1>2. CASE CleanStatus(p)
  BY <1>2 DEF CleanStatus, InvBegun, InvRuns, histVars
<1>3. CASE CompleteJob(p) \/ Notify(p)
  BY <1>3 DEF CompleteJob, Notify, InvBegun, histVars
<1>4. ASSUME NEW t \in Tasks, CleanConfig(p, t) PROVE begun'
  BY <1>4 DEF CleanConfig, InvBegun, histVars
<1>. QED BY <1>1, <1>2, <1>3, <1>4 DEF PollStep

----------------------------------------------------------------------------
(* Until the cleanup begins, a task becomes DONE when the lab has carried  *)
(* out its present order.                                                  *)
LEMMA DeployedStep ==
  TypeOK /\ InvBegun /\ InvLoaded /\ InvRuns /\ InvDeployed /\ [Next]_vars => InvDeployed'
<1>. SUFFICES ASSUME TypeOK, InvBegun, InvLoaded, InvRuns, InvDeployed, [Next]_vars, ~begun'
              PROVE  InvDeployed'
  BY DEF InvDeployed
<1>. USE NullAssumption DEF histVars, taskVars
<1>1. ASSUME UNCHANGED <<begun, status, answered, crossed>>, web.op # "reset" \/ UNCHANGED web
      PROVE  InvDeployed'
  BY <1>1 DEF InvDeployed, Existing
<1>2. ASSUME NEW T \in SUBSET Tasks, MakeJob(T) PROVE InvDeployed'
  <2>1. \A t \in Tasks : status'[t] # "DONE"
    BY <1>2 DEF MakeJob
  <2>. QED BY <2>1 DEF InvDeployed, Existing
<1>3. ASSUME NEW i \in Snapshots, MakeSnapshot(i) PROVE InvDeployed'
  <2>1. \A t \in Tasks : status'[t] = "DONE" => status[t] = "DONE"
    BY <1>3 DEF MakeSnapshot, TypeOK
  <2>2. UNCHANGED <<begun, answered, crossed, web>>
    BY <1>3 DEF MakeSnapshot
  <2>. QED BY <2>1, <2>2 DEF InvDeployed, Existing
<1>4. ASSUME NEW h \in Hosts, StartReimage(h) PROVE InvDeployed'
  BY <1>1, <1>4 DEF StartReimage
<1>5. CASE SaveImage
  <2>1. /\ web.op = "image" /\ answered' = answered \ {web.t}
        /\ UNCHANGED <<status, begun>>
    BY <1>5 DEF SaveImage, Replace
  <2>2. \/ web'.op = "reset" /\ web.t \in web'.todo /\ crossed' = crossed
        \/ crossed' = crossed \cup {web.t}
    BY <1>5, WebRecords
  <2>. QED BY <2>1, <2>2 DEF InvDeployed, Existing
<1>6. ASSUME NEW t \in Tasks, ResetForImage(t) PROVE InvDeployed'
  <2>1. /\ web.op = "reset" /\ t \in web.todo /\ UNCHANGED begun
        /\ answered' = answered \ {t} /\ crossed' = crossed \ {t}
        /\ status' = [status EXCEPT ![t] = "NEW"]
    BY <1>6 DEF ResetForImage, Replace
  <2>2. web.todo = {t} \/ (web'.op = "reset" /\ web'.todo = web.todo \ {t})
    BY <1>6, WebRecords
  <2>3. status'[t] = "NEW" /\ \A u \in Tasks \ {t} : status'[u] = status[u]
    BY <2>1 DEF TypeOK
  <2>. QED BY <2>1, <2>2, <2>3 DEF InvDeployed, Existing
<1>7. ASSUME NEW t \in Tasks, NEW s \in LabPosts \cup {"message"}, NEW f \in BOOLEAN,
             LoadTask(t, s, f)
      PROVE  InvDeployed'
  BY <1>1, <1>7 DEF LoadTask
<1>8. CASE SaveTask
  <2>. DEFINE t == web.t
              fresh == web.fresh /\ t \in hand
              new == IF web.post = "message" THEN web.row ELSE web.post
  <2>1. /\ web.op = "save" /\ t \in Tasks /\ UNCHANGED begun
        /\ status' = [status EXCEPT ![t] = new]
        /\ answered' = IF web.post = "DONE" /\ fresh THEN answered \cup {t} ELSE answered
    BY <1>8 DEF SaveTask, TypeOK
  <2>2. status'[t] = new /\ \A u \in Tasks \ {t} : status'[u] = status[u]
    BY <2>1 DEF TypeOK
  <2>3. CASE fresh
    <3>1. crossed' = crossed \ {t} /\ web.post # "message"
      BY <1>8, <2>3, <2>1 DEF SaveTask, InvLoaded
    <3>. QED BY <2>1, <2>2, <2>3, <3>1 DEF InvDeployed, Existing
  <2>4. CASE ~fresh /\ status[t] = new /\ crossed' = crossed
    BY <2>1, <2>2, <2>4 DEF InvDeployed, Existing
  <2>5. CASE ~fresh /\ crossed' = crossed \cup {t}
    BY <2>1, <2>2, <2>5 DEF InvDeployed, Existing
  <2>. QED BY <1>8, <2>3, <2>4, <2>5 DEF SaveTask
<1>9. CASE CheckClass \/ SendMail
  BY <1>1, <1>9 DEF CheckClass, SendMail
<1>10. CASE WebCrash
  <2>1. /\ UNCHANGED <<begun, status, answered>> /\ crossed' = crossed \cup web.todo
    BY <1>10 DEF WebCrash
  <2>. QED BY <2>1 DEF InvDeployed, Existing
<1>11. CASE EndBooking
  BY <1>1, <1>11 DEF EndBooking
<1>12. ASSUME NEW t \in Tasks, FetchTask(t) PROVE InvDeployed'
  BY <1>1, <1>12 DEF FetchTask
<1>13. ASSUME NEW p \in Pollers, PollStep(p) PROVE InvDeployed'
  BY <1>13, RunsBegun
<1>14. ASSUME NEW p \in Pollers, PollCrash(p) PROVE InvDeployed'
  BY <1>1, <1>14 DEF PollCrash
<1>15. CASE UNCHANGED vars
  BY <1>1, <1>15 DEF vars
<1>. QED
  BY <1>2, <1>3, <1>4, <1>5, <1>6, <1>7, <1>8, <1>9, <1>10, <1>11, <1>12, <1>13, <1>14, <1>15
     DEF Next, WebRequest, WebProgress, LabStep, LabMessage

----------------------------------------------------------------------------
(* A check that has found every class done so far still finds it done:     *)
(* only booking_poll changes a status meanwhile.                           *)
LEMMA CheckStep == TypeOK /\ InvBegun /\ InvRuns /\ InvCheck /\ [Next]_vars => InvCheck'
<1>. SUFFICES ASSUME TypeOK, InvBegun, InvRuns, InvCheck, [Next]_vars PROVE InvCheck'
  OBVIOUS
<1>. USE NullAssumption, EveryClass DEF histVars, taskVars
<1>1. ASSUME web'.op \notin {"check", "mail"} PROVE InvCheck'
  BY <1>1 DEF InvCheck
<1>2. ASSUME UNCHANGED web, begun' \/ UNCHANGED <<status, begun>> PROVE InvCheck'
  BY <1>2 DEF InvCheck, OfKinds, Existing
<1>3. CASE WebRequest
  <2>1. ASSUME NEW h \in Hosts, StartReimage(h) PROVE web'.op = "image"
    BY <2>1, WebRecords
  <2>2. ASSUME ~ \E h \in Hosts : StartReimage(h) PROVE web'.op = "idle"
    BY <1>3, <2>2 DEF WebRequest, MakeJob, MakeSnapshot
  <2>. QED BY <1>1, <2>1, <2>2
<1>4. CASE SaveImage \/ SendMail \/ WebCrash \/ \E t \in Tasks : ResetForImage(t)
  <2>1. web'.op \in {"idle", "reset"}
    BY <1>4, WebRecords, IdleWebType DEF SendMail, WebCrash
  <2>. QED BY <1>1, <2>1
<1>5. CASE SaveTask
  <2>1. web'.op = "check" /\ web'.next = 1
    BY <1>5, WebRecords
  <2>. QED BY <2>1 DEF InvCheck
<1>6. CASE CheckClass
  <2>1. UNCHANGED <<status, begun>> /\ web.op = "check" /\ web.next \in 1..5
    BY <1>6 DEF CheckClass, InvCheck
  <2>2. CASE web' = IdleWeb
    BY <1>1, <2>2, IdleWebType
  <2>3. CASE /\ web.ok /\ \A t \in OfKinds(Classes[web.next]) : status[t] = "DONE"
             /\ web.next >= Len(Classes) /\ web'.op = "mail"
    <3>1. web.next = 5
      BY <2>1, <2>3
    <3>2. ~begun => \A i \in 1..5 : \A t \in OfKinds(Classes[i]) : status[t] = "DONE"
      <4>1. \A i \in 1..5 : i \in 1..(web.next - 1) \/ i = web.next
        BY <3>1
      <4>. QED BY <2>1, <2>3, <4>1 DEF InvCheck
    <3>3. \A t \in Existing : \E i \in 1..5 : t \in OfKinds(Classes[i])
      BY DEF OfKinds, Existing
    <3>4. ~begun => \A t \in Existing : status[t] = "DONE"
      BY <3>2, <3>3
    <3>. QED BY <2>1, <2>3, <3>4 DEF InvCheck, Existing
  <2>4. CASE /\ web.next < Len(Classes) /\ web'.op = "check" /\ web'.next = web.next + 1
             /\ web'.ok => /\ web.ok
                           /\ \A t \in OfKinds(Classes[web.next]) : status[t] = "DONE"
    <3>1. web'.next \in 1..5
      BY <2>1, <2>4
    <3>2. \A i \in 1..(web'.next - 1) : i \in 1..(web.next - 1) \/ i = web.next
      BY <2>1, <2>4
    <3>3. web'.ok /\ ~begun =>
            \A i \in 1..(web'.next - 1) : \A t \in OfKinds(Classes[i]) : status[t] = "DONE"
      BY <2>1, <2>4, <3>2 DEF InvCheck
    <3>. QED BY <2>1, <2>4, <3>1, <3>3 DEF InvCheck, OfKinds, Existing
  <2>. QED BY <1>6, <2>2, <2>3, <2>4, CheckRecord
<1>7. ASSUME NEW t \in Tasks, NEW s \in LabPosts \cup {"message"}, NEW f \in BOOLEAN,
             LoadTask(t, s, f)
      PROVE  InvCheck'
  <2>1. web'.op = "save"
    BY <1>7, WebRecords
  <2>. QED BY <1>1, <2>1
<1>8. ASSUME EndBooking \/ \E t \in Tasks : FetchTask(t) PROVE InvCheck'
  BY <1>2, <1>8 DEF EndBooking, FetchTask
<1>9. ASSUME NEW p \in Pollers, PollStep(p) PROVE InvCheck'
  <2>1. UNCHANGED web
    BY <1>9 DEF PollStep, PickJob, CleanConfig, CleanStatus, CompleteJob, Notify
  <2>. QED BY <1>2, <1>9, <2>1, RunsBegun
<1>10. ASSUME NEW p \in Pollers, PollCrash(p) PROVE InvCheck'
  BY <1>2, <1>10 DEF PollCrash
<1>11. CASE UNCHANGED vars
  BY <1>2, <1>11 DEF vars
<1>. QED
  BY <1>3, <1>4, <1>5, <1>6, <1>7, <1>8, <1>9, <1>10, <1>11
     DEF Next, WebProgress, LabStep, LabMessage

----------------------------------------------------------------------------
(* InvProcessed while no run changes and every task keeps what it has.     *)
LEMMA ProcessedFrame ==
  ASSUME TypeOK, InvProcessed, UNCHANGED <<poll, job>>,
         \A p \in Pollers : poll[p].half \in Tasks \cup {None},
         \A t \in Tasks : \/ status'[t] = status[t]
                          \/ status[t] # "absent" \/ t[1] \notin CleanedKinds,
         \A t \in Tasks : t[1] \in CleanedKinds /\ Processed(t) => Processed(t)',
         revived \subseteq revived',
         \A t \in Tasks : order[t] = "cleanup" => order'[t] = "cleanup" \/ t \in revived'
  PROVE  InvProcessed'
<1>. USE NullAssumption
<1>1. OfKinds(CleanedKinds)' \subseteq OfKinds(CleanedKinds)
  BY DEF OfKinds, Existing
<1>2. OfKinds(CleanedKinds) \subseteq Tasks /\ \A t \in OfKinds(CleanedKinds) : t[1] \in CleanedKinds
  BY DEF OfKinds, Existing
<1>. QED BY <1>1, <1>2 DEF InvProcessed

(* A task that a run is through with stays ordered to be cleaned.          *)
LEMMA ProcessedStep ==
  TypeOK /\ InvBegun /\ InvLoaded /\ InvRuns /\ InvProcessed /\ [Next]_vars => InvProcessed'
<1>. SUFFICES ASSUME TypeOK, InvBegun, InvLoaded, InvRuns, InvProcessed, [Next]_vars
              PROVE  InvProcessed'
  OBVIOUS
<1>. USE NullAssumption DEF histVars, taskVars
<1>0. \A p \in Pollers : poll[p].half \in Tasks \cup {None}
  BY DEF TypeOK, Polls
<1>1. ASSUME UNCHANGED <<poll, job, status, order, answered, revived>>, crossed \subseteq crossed'
      PROVE  InvProcessed'
  BY <1>0, <1>1, ProcessedFrame DEF Processed
<1>2. ASSUME NEW T \in SUBSET Tasks, MakeJob(T) PROVE InvProcessed'
  <2>1. ~begun /\ job' = "open" /\ UNCHANGED poll
    BY <1>2 DEF MakeJob, InvBegun
  <2>2. \A p \in Pollers : poll[p].at = "idle" /\ poll[p].half = None
    BY <2>1 DEF InvBegun, InvRuns, TypeOK, Polls
  <2>. QED BY <2>1, <2>2 DEF InvProcessed
<1>3. ASSUME NEW i \in Snapshots, MakeSnapshot(i) PROVE InvProcessed'
  <2>. DEFINE s == <<"snapshot", i>>
  <2>1. /\ UNCHANGED <<poll, job, order, answered, crossed, revived>>
        /\ status' = [status EXCEPT ![s] = "NEW"]
    BY <1>3 DEF MakeSnapshot
  <2>2. s[1] \notin CleanedKinds
    BY DEF CleanedKinds
  <2>3. \A t \in Tasks : status'[t] = status[t] \/ t[1] \notin CleanedKinds
    BY <2>1, <2>2 DEF TypeOK
  <2>. QED BY <1>0, <2>1, <2>3, ProcessedFrame DEF Processed
<1>4. CASE SaveImage
  <2>1. /\ web.op = "image" /\ web.row = "deploy" /\ web.t \in Tasks
        /\ order' = [order EXCEPT ![web.t] = "deploy"] /\ answered' = answered \ {web.t}
        /\ revived' = IF order[web.t] = "cleanup" THEN revived \cup {web.t} ELSE revived
        /\ UNCHANGED <<poll, job, status>>
    BY <1>4 DEF SaveImage, Replace, InvBegun, TypeOK
  <2>2. crossed \subseteq crossed'
    BY <1>4 DEF SaveImage
  <2>3. \A t \in Tasks : order[t] = "cleanup" => order'[t] = "cleanup" \/ t \in revived'
    BY <2>1 DEF TypeOK
  <2>4. \A t \in Tasks : Processed(t) => Processed(t)'
    BY <2>1, <2>2 DEF Processed, TypeOK
  <2>. QED BY <1>0, <2>1, <2>3, <2>4, ProcessedFrame
<1>5. ASSUME NEW t \in Tasks, ResetForImage(t) PROVE InvProcessed'
  <2>1. /\ status[t] # "absent" /\ status' = [status EXCEPT ![t] = "NEW"]
        /\ answered' = answered \ {t} /\ crossed' = crossed \ {t}
        /\ UNCHANGED <<poll, job, order, revived>>
    BY <1>5 DEF ResetForImage, Replace, InvLoaded, Existing
  <2>2. status'[t] = "NEW" /\ \A u \in Tasks \ {t} : status'[u] = status[u]
    BY <2>1 DEF TypeOK
  <2>3. \A u \in Tasks : Processed(u) => Processed(u)'
    BY <2>1, <2>2 DEF Processed
  <2>. QED BY <1>0, <2>1, <2>2, <2>3, ProcessedFrame
<1>6. ASSUME NEW t \in Tasks, NEW s \in LabPosts \cup {"message"}, NEW f \in BOOLEAN,
             LoadTask(t, s, f)
      PROVE  InvProcessed'
  BY <1>1, <1>6 DEF LoadTask
<1>7. CASE SaveTask
  <2>. DEFINE t == web.t
              fresh == web.fresh /\ t \in hand
              new == IF web.post = "message" THEN web.row ELSE web.post
  <2>1. /\ web.op = "save" /\ t \in Tasks /\ status[t] # "absent"
        /\ status' = [status EXCEPT ![t] = new]
        /\ answered' = IF web.post = "DONE" /\ fresh THEN answered \cup {t} ELSE answered
        /\ UNCHANGED <<poll, job, order, revived>>
    BY <1>7 DEF SaveTask, InvLoaded, Existing
  <2>2. status'[t] = new /\ \A u \in Tasks \ {t} : status'[u] = status[u]
    BY <2>1 DEF TypeOK
  <2>3. \A u \in Tasks : Processed(u) => Processed(u)'
    <3>1. CASE fresh
      <4>1. crossed' = crossed \ {t} /\ web.post # "message"
        BY <1>7, <2>1, <3>1 DEF SaveTask, InvLoaded
      <4>. QED BY <2>1, <2>2, <3>1, <4>1 DEF Processed
    <3>2. CASE ~fresh /\ status[t] = new /\ crossed' = crossed
      BY <2>1, <2>2, <3>2 DEF Processed
    <3>3. CASE ~fresh /\ crossed' = crossed \cup {t}
      BY <2>1, <2>2, <3>3 DEF Processed
    <3>. QED BY <1>7, <3>1, <3>2, <3>3 DEF SaveTask
  <2>. HIDE DEF new, fresh
  <2>. QED BY <1>0, <2>1, <2>2, <2>3, ProcessedFrame
<1>8. CASE CheckClass \/ SendMail \/ WebCrash \/ EndBooking
  BY <1>1, <1>8 DEF CheckClass, SendMail, WebCrash, EndBooking
<1>9. ASSUME (\E h \in Hosts : StartReimage(h)) \/ \E t \in Tasks : FetchTask(t)
      PROVE  InvProcessed'
  BY <1>1, <1>9 DEF StartReimage, FetchTask
<1>10. ASSUME NEW p \in Pollers, PickJob(p) PROVE InvProcessed'
  <2>. DEFINE r == [IdlePoll EXCEPT !.at = "clean", !.todo = OfKinds(CleanedKinds)]
  <2>1. /\ poll' = [poll EXCEPT ![p] = r]
        /\ UNCHANGED <<job, status, order, answered, crossed, revived>>
    BY <1>10 DEF PickJob
  <2>2. r.todo = OfKinds(CleanedKinds) /\ r.half = None
    BY DEF IdlePoll
  <2>. HIDE DEF r
  <2>3. poll'[p] = r /\ \A q \in Pollers \ {p} : poll'[q] = poll[q]
    BY <2>1 DEF TypeOK
  <2>. QED BY <2>1, <2>2, <2>3 DEF InvProcessed, OfKinds, Existing, Processed
<1>11. ASSUME NEW p \in Pollers, NEW t \in Tasks, CleanConfig(p, t) PROVE InvProcessed'
  <2>. DEFINE r == [poll[p] EXCEPT !.half = t, !.todo = poll[p].todo \ {t}]
  <2>1. /\ poll[p].at = "clean" /\ poll[p].half = None
        /\ poll' = [poll EXCEPT ![p] = r] /\ order' = [order EXCEPT ![t] = "cleanup"]
        /\ answered' = answered \ ({t} \ Cleaned)
        /\ UNCHANGED <<job, status, crossed, revived>>
    BY <1>11 DEF CleanConfig, Replace
  <2>2. r.todo = poll[p].todo \ {t} /\ r.half = t
    BY DEF TypeOK, Polls
  <2>. HIDE DEF r
  <2>3. poll'[p] = r /\ \A q \in Pollers \ {p} : poll'[q] = poll[q]
    BY <2>1 DEF TypeOK
  <2>4. order'[t] = "cleanup" /\ \A u \in Tasks \ {t} : order'[u] = order[u]
    BY <2>1 DEF TypeOK
  <2>5. \A u \in Tasks : Processed(u) => Processed(u)'
    BY <2>1, <2>4 DEF Processed, Cleaned
  <2>6. /\ OfKinds(CleanedKinds)' = OfKinds(CleanedKinds)
        /\ OfKinds(CleanedKinds) \subseteq Tasks
    BY <2>1 DEF OfKinds, Existing
  <2>. QED BY <1>0, <2>1, <2>2, <2>3, <2>4, <2>5, <2>6 DEF InvProcessed
<1>12. ASSUME NEW p \in Pollers, CleanStatus(p) PROVE InvProcessed'
  <2>. DEFINE r == [poll[p] EXCEPT !.half = None]
  <2>0. PICK h \in Tasks : h = poll[p].half
    BY <1>0, <1>12 DEF CleanStatus
  <2>1. /\ h # None /\ status[h] # "absent" /\ poll[p].at = "clean"
        /\ poll' = [poll EXCEPT ![p] = r] /\ status' = [status EXCEPT ![h] = "NEW"]
        /\ crossed' = crossed \ {h}
        /\ UNCHANGED <<job, order, answered, revived>>
    BY <1>12, <2>0 DEF CleanStatus, InvRuns, InvLoaded, Existing
  <2>2. r.todo = poll[p].todo /\ r.half = None
    BY DEF TypeOK, Polls
  <2>. HIDE DEF r
  <2>3. poll'[p] = r /\ \A q \in Pollers \ {p} : poll'[q] = poll[q]
    BY <2>1 DEF TypeOK
  <2>4. status'[h] = "NEW" /\ \A u \in Tasks \ {h} : status'[u] = status[u]
    BY <2>1 DEF TypeOK
  <2>5. Processed(h)'
    <3>1. h \in revived \/ order[h] = "cleanup"
      BY <2>0, <2>1 DEF InvProcessed
    <3>. QED BY <2>1, <2>4, <3>1 DEF Processed
  <2>6. \A u \in Tasks : Processed(u) => Processed(u)'
    BY <2>1, <2>4 DEF Processed
  <2>7. /\ OfKinds(CleanedKinds)' = OfKinds(CleanedKinds)
        /\ OfKinds(CleanedKinds) \subseteq Tasks
    BY <2>1, <2>4 DEF OfKinds, Existing
  <2>. QED BY <1>0, <2>0, <2>1, <2>2, <2>3, <2>5, <2>6, <2>7 DEF InvProcessed
<1>13. ASSUME NEW p \in Pollers, CompleteJob(p) PROVE InvProcessed'
  <2>. DEFINE r == [poll[p] EXCEPT !.at = "notify"]
  <2>1. /\ poll[p].at = "clean" /\ poll[p].half = None /\ poll[p].todo = {}
        /\ poll' = [poll EXCEPT ![p] = r]
        /\ UNCHANGED <<status, order, answered, crossed, revived>>
    BY <1>13 DEF CompleteJob
  <2>2. r.todo = {} /\ r.half = None
    BY <2>1 DEF TypeOK, Polls
  <2>. HIDE DEF r
  <2>3. poll'[p] = r /\ \A q \in Pollers \ {p} : poll'[q] = poll[q]
    BY <2>1 DEF TypeOK
  <2>4. \A t \in OfKinds(CleanedKinds) : Processed(t)
    <3>1. None \notin OfKinds(CleanedKinds)
      BY DEF OfKinds, Existing
    <3>. QED BY <2>1, <3>1 DEF InvProcessed
  <2>5. /\ OfKinds(CleanedKinds)' = OfKinds(CleanedKinds)
        /\ \A t \in Tasks : Processed(t)' <=> Processed(t)
        /\ OfKinds(CleanedKinds) \subseteq Tasks
    BY <2>1 DEF OfKinds, Existing, Processed
  <2>. QED BY <2>1, <2>2, <2>3, <2>4, <2>5 DEF InvProcessed
<1>14. ASSUME NEW p \in Pollers, Notify(p) \/ PollCrash(p) PROVE InvProcessed'
  <2>1. /\ poll' = [poll EXCEPT ![p] = IdlePoll]
        /\ UNCHANGED <<job, status, order, answered, crossed, revived>>
    BY <1>14 DEF Notify, PollCrash
  <2>2. /\ poll'[p].at = "idle" /\ poll'[p].half = None
        /\ \A q \in Pollers \ {p} : poll'[q] = poll[q]
    BY <2>1 DEF TypeOK, IdlePoll
  <2>. QED BY <2>1, <2>2 DEF InvProcessed, OfKinds, Existing, Processed
<1>15. CASE UNCHANGED vars
  BY <1>1, <1>15 DEF vars
<1>. QED
  BY <1>2, <1>3, <1>4, <1>5, <1>6, <1>7, <1>8, <1>9, <1>10, <1>11, <1>12, <1>13, <1>14, <1>15
     DEF Next, WebRequest, WebProgress, LabStep, LabMessage, PollStep

----------------------------------------------------------------------------
(* The inductive invariant holds in every reachable state.                 *)
THEOREM JobInvariant == Spec => []IInv
<1>1. Init => IInv
  <2>. SUFFICES ASSUME Init PROVE IInv
    OBVIOUS
  <2>1. TypeOK
    BY TypeInit
  <2>2. /\ web.op = "idle" /\ Existing = {} /\ Cleaned = {}
        /\ \A p \in Pollers : poll[p].at = "idle" /\ poll[p].half = None
    BY IdleWebType DEF Init, IdlePoll, Existing, Cleaned
  <2>3. InvBegun /\ InvLoaded /\ InvRuns
    BY <2>2 DEF Init, InvBegun, InvLoaded, InvRuns
  <2>4. InvDeployed /\ InvCheck /\ InvProcessed
    BY <2>2 DEF Init, InvDeployed, InvCheck, InvProcessed
  <2>. QED BY <2>1, <2>3, <2>4 DEF IInv
<1>2. IInv /\ [Next]_vars => IInv'
  BY TypeStep, BegunStep, RunsStep, DeployedStep, CheckStep, ProcessedStep DEF IInv
<1>. QED BY <1>1, <1>2, PTL DEF Spec

(* Every variable keeps its type.                                          *)
THEOREM JobTypes == Spec => []TypeOK
<1>1. IInv => TypeOK
  BY DEF IInv
<1>. QED BY <1>1, JobInvariant, PTL

(* Until the cleanup begins, task_updated mails "Your Booking is Ready"    *)
(* only when every task is DONE, whatever posts, messages and requests     *)
(* came in what order.                                                     *)
THEOREM HonestMail == Spec => []ReadyMailHonest
<1>1. IInv => ReadyMailHonest
  BY DEF IInv, InvCheck, InvDeployed, ReadyMailHonest
<1>. QED BY <1>1, JobInvariant, PTL

(* Once booking_poll has completed the job, DONE stands for the cleanup    *)
(* and not for the deployment, but for the tasks the history names.        *)
THEOREM CleanedWhenDone == Spec => []DoneMeansCleaned
<1>1. IInv => DoneMeansCleaned
  BY DEF IInv, InvProcessed, Processed, DoneMeansCleaned
<1>. QED BY <1>1, JobInvariant, PTL

(* notify_booking_end comes after every cleanup order of the booking.      *)
THEOREM OrderedBeforeNotice == Spec => []NoticeMeansOrdered
<1>1. IInv => NoticeMeansOrdered
  BY DEF IInv, InvRuns, InvProcessed, Processed, NoticeMeansOrdered
<1>. QED BY <1>1, JobInvariant, PTL

(* Runs of booking_poll that do not overlap, crash and restart included,   *)
(* notify the users of the end once.                                       *)
THEOREM NoticeOnce == Spec => []OneNotice
<1>1. IInv => OneNotice
  BY DEF IInv, InvRuns, OneNotice
<1>. QED BY <1>1, JobInvariant, PTL

=============================================================================
