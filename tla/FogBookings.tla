---------------------------- MODULE FogBookings ----------------------------
(***************************************************************************)
(* The laas-fog pack of StackStorm: a sensor polls the dashboard for        *)
(* bookings of the lab's machines, keeps them in the datastore of StackStorm *)
(* and dispatches a deployment workflow when a booking begins and a clean   *)
(* workflow when it has ended.  Every call of the datastore is a step: the  *)
(* sensor and the workflows run in processes of their own, each may die at  *)
(* any step, and all of them read, change and write back whole values.      *)
(*                                                                          *)
(* Only the sensor writes the list of bookings, so the read before such a   *)
(* write is part of the write.  A poll that does not reach the dashboard    *)
(* does nothing at all (the exception skips checkBookings as well), which   *)
(* is the same as no poll.                                                  *)
(***************************************************************************)
EXTENDS Naturals, Sequences, SequencesExt

CONSTANTS
    Bookings,       \* ids of the bookings of the dashboard
    Hosts,          \* resources of the dashboard that are machines of this lab
    Schedule,       \* the bookings as they are made: machine, start and end
    Windows,        \* the times a booking may be given instead
    Names,          \* user names vpnAction chooses from
    MaxTime,        \* bound of the clock
    MaxFlows,       \* bound on the workflows that are ever dispatched
    MaxAccidents,   \* bound on changed bookings, crashes, failures, outages
    None

Slot == [host: Hosts, start: Nat, end: Nat]
Record == [host: Hosts, start: Nat, end: Nat, status: {0, 1, 3}, key: Names \cup {None}]

\* The dashboard keeps the bookings of one machine apart.
Apart(d) == \A a, b \in Bookings :
    a # b /\ d[a] # None /\ d[b] # None /\ d[a].host = d[b].host
        => d[a].end <= d[b].start \/ d[b].end <= d[a].start

ASSUME FogAssumption ==
    /\ None \notin Bookings /\ None \notin Names
    /\ Windows \subseteq [start: Nat, end: Nat]
    /\ Schedule \in [Bookings -> Slot] /\ Apart(Schedule)
    /\ None \notin Slot /\ None \notin Record
    /\ {MaxTime, MaxFlows, MaxAccidents} \subseteq Nat

VARIABLES
    now,            \* time.time()
    dash,           \* what /api/bookings/ lists: a booking, or None
    list, rec,      \* datastore: the value 'bookings' and the values 'booking_<id>'
    servers,        \* the machines the sensor has loaded from the datastore
    pc,             \* where the sensor is
    seen,           \* the bookings of this poll it has not gone through
    queue,          \* the ids checkBookings has not gone through
    cur, copy, draft, \* the id under work, its record at the check, its record to change
    flows,          \* workflow executions in the order of their dispatch
    task,           \* the imaging task FOG has for a machine: the workflow that posted it, or 0
    disk,           \* what is on a machine: None after imaging, a booking after an install
    users,          \* LDAP: the workflow that made the user, or 0
    moved,          \* history: bookings changed on the dashboard
    overrun,        \* history: bookings that ended while being deployed
    cut,            \* history: bookings whose start or end the death of the sensor cut short
    cancelled,      \* history: imaging tasks that were cancelled
    accidents       \* so far

time == <<now, accidents>>
board == <<dash, moved>>
store == <<list, rec>>
sensor == <<pc, seen, queue, cur, copy, draft, servers>>
fog == <<task, disk, cancelled>>
lab == <<flows, users, fog>>
losses == <<overrun, cut>>
vars == <<time, board, store, sensor, lab, losses>>

SensorAt == {"idle", "add", "list", "check", "start", "startSave", "startDispatch",
             "end", "endSave", "unlist", "forget", "endDispatch"}
Stages == {"image", "find", "watch", "install", "user", "save", "revoke",
           "done", "failed"}
Flow == [kind: {"deploy", "clean"}, booking: Bookings, host: Hosts, stage: Stages,
         task: Nat, blind: BOOLEAN, key: Names \cup {None}, draft: Record \cup {None}]

Listed(b) == \E k \in DOMAIN list : list[k] = b
Running(f) == f.stage \notin {"done", "failed"}
Nothing == [b \in Bookings |-> None]

Init ==
    /\ now = 0 /\ accidents = 0
    /\ dash = Schedule
    /\ list = <<>> /\ rec = Nothing
    /\ servers = Hosts
    /\ pc = "idle" /\ seen = Nothing /\ queue = <<>>
    /\ cur = None /\ copy = None /\ draft = None
    /\ flows = <<>> /\ users = [n \in Names |-> 0]
    /\ task = [h \in Hosts |-> 0] /\ disk = [h \in Hosts |-> None] /\ cancelled = {}
    /\ moved = {} /\ overrun = {} /\ cut = {}

-----------------------------------------------------------------------------
(* Users and operators. *)

Tick ==
    /\ now < MaxTime
    /\ now' = now + 1
    /\ UNCHANGED <<accidents, board, store, sensor, lab, losses>>

\* A user deletes a booking or changes its times.
ChangeBooking(b) ==
    /\ accidents < MaxAccidents /\ dash[b] # None
    /\ \/ dash' = [dash EXCEPT ![b] = None]
       \/ \E w \in Windows :
             dash' = [dash EXCEPT ![b] = [host |-> dash[b].host, start |-> w.start, end |-> w.end]]
    /\ Apart(dash')
    /\ moved' = moved \cup {b}
    /\ accidents' = accidents + 1
    /\ UNCHANGED <<now, store, sensor, lab, losses>>

-----------------------------------------------------------------------------
(* The sensor. *)

Fetch ==
    /\ pc = "idle"
    /\ seen' = [b \in Bookings |->
                   IF dash[b] # None /\ dash[b].host \in servers THEN dash[b] ELSE None]
    /\ pc' = "add"
    /\ UNCHANGED <<time, board, store, queue, cur, copy, draft, servers, lab, losses>>

\* AddBooking leaves bookings that are over or known alone.
New(b) == seen[b] # None /\ ~(now > seen[b].end) /\ ~Listed(b)

StoreBooking(b) ==
    /\ pc = "add" /\ New(b)
    /\ rec' = [rec EXCEPT ![b] = [host |-> seen[b].host, start |-> seen[b].start,
                                  end |-> seen[b].end, status |-> 0, key |-> None]]
    /\ cur' = b /\ pc' = "list"
    /\ UNCHANGED <<time, board, list, seen, queue, copy, draft, servers, lab, losses>>

ListBooking ==
    /\ pc = "list"
    /\ list' = Append(list, cur)
    /\ cur' = None /\ pc' = "add"
    /\ UNCHANGED <<time, board, rec, seen, queue, copy, draft, servers, lab, losses>>

StartCheck ==
    /\ pc = "add" /\ \A b \in Bookings : ~New(b)
    /\ queue' = list /\ seen' = Nothing
    /\ pc' = "check"
    /\ UNCHANGED <<time, board, store, cur, copy, draft, servers, lab, losses>>

Over(r) == now > r.end
Due(r) == ~Over(r) /\ now > r.start /\ r.status < 1

PassBooking ==
    /\ pc = "check" /\ queue # <<>>
    /\ rec[Head(queue)] # None
    /\ ~Over(rec[Head(queue)]) /\ ~Due(rec[Head(queue)])
    /\ queue' = Tail(queue)
    /\ UNCHANGED <<time, board, store, pc, seen, cur, copy, draft, servers, lab, losses>>

\* checkBookings finds something to do and the machine is one the sensor knows.
TakeBooking(to) ==
    /\ pc = "check" /\ queue # <<>>
    /\ rec[Head(queue)] # None /\ rec[Head(queue)].host \in servers
    /\ cur' = Head(queue) /\ copy' = rec[Head(queue)]
    /\ queue' = Tail(queue)
    /\ pc' = to
    /\ UNCHANGED <<time, board, store, seen, draft, servers, lab, cut>>

BeginStart ==
    /\ TakeBooking("start")
    /\ Due(copy')
    /\ UNCHANGED overrun

NoteOverrun == overrun' = overrun \cup {flows[i].booking : i \in {j \in DOMAIN flows :
    flows[j].kind = "deploy" /\ flows[j].booking = cur' /\ Running(flows[j])}}

\* checkBookings leaves a booking that was never started alone.
BeginEndStarted ==
    /\ TakeBooking("end")
    /\ Over(copy') /\ copy'.status = 1
    /\ NoteOverrun

BeginEnd ==
    /\ TakeBooking("end")
    /\ Over(copy')
    /\ NoteOverrun

\* getBooking finds no value, or getServer no machine: poll gives up.
RaiseInCheck ==
    /\ pc = "check" /\ queue # <<>>
    /\ \/ rec[Head(queue)] = None
       \/ /\ Over(rec[Head(queue)]) \/ Due(rec[Head(queue)])
          /\ rec[Head(queue)].host \notin servers
    /\ queue' = <<>>
    /\ pc' = "idle"
    /\ UNCHANGED <<time, board, store, seen, cur, copy, draft, servers, lab, losses>>

FinishCheck ==
    /\ pc = "check" /\ queue = <<>>
    /\ pc' = "idle"
    /\ UNCHANGED <<time, board, store, seen, queue, cur, copy, draft, servers, lab, losses>>

\* setBookingStatus reads the record again ...
ReadStatus ==
    /\ pc \in {"start", "end"} /\ rec[cur] # None
    /\ draft' = rec[cur]
    /\ pc' = IF pc = "start" THEN "startSave" ELSE "endSave"
    /\ UNCHANGED <<time, board, store, seen, queue, cur, copy, servers, lab, losses>>

\* ... and writes it back.
SaveStatus(status) ==
    /\ rec' = [rec EXCEPT ![cur] = [draft EXCEPT !.status = status]]
    /\ draft' = None
    /\ UNCHANGED <<time, board, list, seen, queue, cur, copy, servers, lab, losses>>

\* The status of a started booking is not saved.
MarkStartedNot == pc = "startSave" /\ SaveStatus(0) /\ pc' = "startDispatch"

MarkStarted == pc = "startSave" /\ SaveStatus(1) /\ pc' = "startDispatch"

\* endBooking marks the booking with a status nobody knows.
MarkEndedTwo == pc = "endSave" /\ SaveStatus(2) /\ pc' = "unlist"

MarkEnded == pc = "endSave" /\ SaveStatus(3) /\ pc' = "unlist"

Dispatch(kind, key) ==
    /\ Len(flows) < MaxFlows
    /\ flows' = Append(flows, [kind |-> kind, booking |-> cur, host |-> copy.host,
                               stage |-> "image", task |-> 0, blind |-> FALSE,
                               key |-> key, draft |-> None])
    /\ cur' = None /\ copy' = None /\ pc' = "check"
    /\ UNCHANGED <<time, board, store, seen, queue, draft, servers,
                   users, fog, losses>>

DispatchStart == pc = "startDispatch" /\ Dispatch("deploy", None)

\* removeBooking deletes the record first.
UnlistLate ==
    /\ pc = "unlist"
    /\ rec' = [rec EXCEPT ![cur] = None]
    /\ pc' = "forget"
    /\ UNCHANGED <<time, board, list, seen, queue, cur, copy, draft, servers, lab, losses>>

\* removeBooking: the list first, then the record.
Unlist ==
    /\ pc = "unlist"
    /\ \E k \in DOMAIN list : list[k] = cur /\ list' = RemoveAt(list, k)
    /\ pc' = "forget"
    /\ UNCHANGED <<time, board, rec, seen, queue, cur, copy, draft, servers, lab, losses>>

Forget ==
    /\ pc = "forget"
    /\ rec' = [rec EXCEPT ![cur] = None]
    /\ pc' = "endDispatch"
    /\ UNCHANGED <<time, board, list, seen, queue, cur, copy, draft, servers, lab, losses>>

\* The clean workflow is dispatched without the key.
DispatchEndNoKey == pc = "endDispatch" /\ Dispatch("clean", None)

\* The VPN key is that of the record loaded by checkBookings.
DispatchEnd == pc = "endDispatch" /\ Dispatch("clean", copy.key)

\* StackStorm restarts its sensor container.  setup loads the list of hosts, which an operator
\* may have edited since.
Restart ==
    /\ accidents < MaxAccidents
    /\ pc' = "idle" /\ seen' = Nothing /\ queue' = <<>>
    /\ cur' = None /\ copy' = None /\ draft' = None
    /\ \E gone \in SUBSET servers : servers' = servers \ gone
    /\ cut' = IF pc \in {"startDispatch", "forget", "endDispatch"} THEN cut \cup {cur} ELSE cut
    /\ accidents' = accidents + 1
    /\ UNCHANGED <<now, board, store, lab, overrun>>

-----------------------------------------------------------------------------
(* The workflows.  Neither trigger names an operating system or an image, so *)
(* fog_changeImage gets neither, finds no image id and returns.              *)

Step(i, stage) == flows' = [flows EXCEPT ![i].stage = stage]
Mine(i) == flows[i].host
AfterImaging(i) == IF flows[i].kind = "deploy" THEN "install" ELSE "revoke"

\* FOG refuses a second task for a machine, which the action does not look at.
StartImaging(i) ==
    /\ flows[i].stage = "image"
    /\ Step(i, "find")
    /\ task' = [task EXCEPT ![Mine(i)] = IF @ = 0 THEN i ELSE @]
    /\ UNCHANGED <<time, board, store, sensor, users, disk, cancelled, losses>>

\* getHostNumber has no number for the machine, and nothing is posted for it.
NoHostNumber == UNCHANGED <<task, cancelled>>

\* delTask, for a machine that may have no task.
CancelTask(h) == cancelled' = cancelled \cup ({task[h]} \ {0})

\* ... or the post raises, and the task FOG has for the machine is cancelled and posted anew.
StartImagingTrouble(i) ==
    /\ flows[i].stage = "image" /\ accidents < MaxAccidents
    /\ Step(i, "find")
    /\ \/ NoHostNumber
       \/ CancelTask(Mine(i)) /\ task' = [task EXCEPT ![Mine(i)] = i]
    /\ accidents' = accidents + 1
    /\ UNCHANGED <<now, board, store, sensor, users, disk, losses>>

\* waitForImaging takes the first imaging task of the machine, whoever posted it.
FindTask(i) ==
    /\ flows[i].stage = "find" /\ task[Mine(i)] # 0
    /\ flows' = [flows EXCEPT ![i] = [@ EXCEPT !.stage = "watch", !.task = task[Mine(i)]]]
    /\ UNCHANGED <<time, board, store, sensor, users, fog, losses>>

\* No such task, and the workflow stops here.
FindNoTask(i) ==
    /\ flows[i].stage = "find" /\ task[Mine(i)] = 0
    /\ Step(i, "failed")
    /\ UNCHANGED <<time, board, store, sensor, users, fog, losses>>

\* The wait ends when the task is found.
WatchTaskNot(i) ==
    /\ flows[i].stage = "watch"
    /\ Step(i, AfterImaging(i))
    /\ UNCHANGED <<time, board, store, sensor, users, fog, losses>>

WatchTask(i) ==
    /\ flows[i].stage = "watch" /\ task[Mine(i)] # flows[i].task
    /\ Step(i, AfterImaging(i))
    /\ UNCHANGED <<time, board, store, sensor, users, fog, losses>>

\* FOG cannot be reached: getAllTasks returns [], and the wait is over.
WatchOutage(i) ==
    /\ flows[i].stage = "watch" /\ accidents < MaxAccidents
    /\ flows' = [flows EXCEPT ![i] = [@ EXCEPT !.stage = AfterImaging(i), !.blind = TRUE]]
    /\ accidents' = accidents + 1
    /\ UNCHANGED <<now, board, store, sensor, users, fog, losses>>

\* The machine has booted into FOG and the image is on its disk.
FinishImaging(h) ==
    /\ task[h] # 0
    /\ task' = [task EXCEPT ![h] = 0]
    /\ disk' = [disk EXCEPT ![h] = None]
    /\ UNCHANGED <<time, board, store, sensor, flows, users, cancelled, losses>>

\* The installer and password workflows.
Install(i) ==
    /\ flows[i].stage = "install"
    /\ Step(i, "user")
    /\ disk' = [disk EXCEPT ![Mine(i)] = flows[i].booking]
    /\ UNCHANGED <<time, board, store, sensor, users, task, cancelled, losses>>

\* checkName: no entry of LDAP has the name as its uid.
Available(n) == users[n] = 0

\* makeNewUser tries names of its list until one is available; after 20 tries it gives up,
\* which is taken to mean that none is.
FreeNames == {n \in Names : Available(n)}

\* addUser.
AddUser(n, i) == users' = [users EXCEPT ![n] = i]

\* addUserToBooking reads the booking for the new user's key; there may be none left.
MakeUser(i) ==
    /\ flows[i].stage = "user"
    /\ \E n \in FreeNames :
          /\ AddUser(n, i)
          /\ flows' = [flows EXCEPT ![i] = [@ EXCEPT
                          !.key = n, !.draft = rec[flows[i].booking],
                          !.stage = IF rec[flows[i].booking] = None THEN "failed" ELSE "save"]]
    /\ UNCHANGED <<time, board, store, sensor, fog, losses>>

\* randoString makes names of letters and digits: the random name of last resort has no '_'
\* for addUser to split at.
MakeUserNoName(i) ==
    /\ flows[i].stage = "user" /\ FreeNames = {}
    /\ Step(i, "failed")
    /\ UNCHANGED <<time, board, store, sensor, users, fog, losses>>

\* ... and the booking is written back, whether or not it still exists.
SaveUser(i) ==
    /\ flows[i].stage = "save"
    /\ rec' = [rec EXCEPT ![flows[i].booking] = [flows[i].draft EXCEPT !.key = flows[i].key]]
    /\ flows' = [flows EXCEPT ![i] = [@ EXCEPT !.stage = "done", !.draft = None]]
    /\ UNCHANGED <<time, board, list, sensor, users, fog, losses>>

Revoke(i) ==
    /\ flows[i].stage = "revoke"
    /\ users' = [n \in Names |-> IF n = flows[i].key THEN 0 ELSE users[n]]
    /\ Step(i, "done")
    /\ UNCHANGED <<time, board, store, sensor, fog, losses>>

\* vpn_make_user is killed after it has made the user.  (A workflow that stops elsewhere is
\* one that never goes on.)
FailFlow(i) ==
    /\ flows[i].stage = "save" /\ accidents < MaxAccidents
    /\ flows' = [flows EXCEPT ![i] = [@ EXCEPT !.stage = "failed", !.draft = None]]
    /\ accidents' = accidents + 1
    /\ UNCHANGED <<now, board, store, sensor, users, fog, losses>>

-----------------------------------------------------------------------------
SensorStep ==
    \/ Fetch
    \/ \E b \in Bookings : StoreBooking(b)
    \/ ListBooking \/ StartCheck \/ PassBooking \/ BeginStart \/ BeginEnd
    \/ RaiseInCheck \/ FinishCheck \/ ReadStatus
    \/ MarkStarted \/ DispatchStart
    \/ MarkEnded \/ Unlist \/ Forget \/ DispatchEnd

FlowStep(i) ==
    \/ StartImaging(i) \/ StartImagingTrouble(i) \/ FindTask(i) \/ FindNoTask(i)
    \/ WatchTask(i) \/ WatchOutage(i) \/ Install(i)
    \/ MakeUser(i) \/ MakeUserNoName(i) \/ SaveUser(i)
    \/ Revoke(i) \/ FailFlow(i)

Next ==
    \/ Tick
    \/ \E b \in Bookings : ChangeBooking(b)
    \/ \E h \in Hosts : FinishImaging(h)
    \/ SensorStep
    \/ Restart
    \/ \E i \in DOMAIN flows : FlowStep(i)

Spec == Init /\ [][Next]_vars

\* StackStorm calls poll every 30 seconds (dashboard_listener.yaml), and the dashboard
\* is reached again after every outage.
FairSpec == Spec /\ WF_vars(SensorStep)

-----------------------------------------------------------------------------
(* Properties. *)

\* Types.
TypeOK ==
    /\ now \in Nat /\ accidents \in Nat
    /\ dash \in [Bookings -> Slot \cup {None}] /\ seen \in [Bookings -> Slot \cup {None}]
    /\ list \in Seq(Bookings) /\ queue \in Seq(Bookings)
    /\ rec \in [Bookings -> Record \cup {None}]
    /\ servers \subseteq Hosts
    /\ pc \in SensorAt
    /\ cur \in Bookings \cup {None}
    /\ copy \in Record \cup {None} /\ draft \in Record \cup {None}
    /\ flows \in Seq(Flow)
    /\ users \in [Names -> Nat] /\ task \in [Hosts -> Nat]
    /\ disk \in [Hosts -> Bookings \cup {None}]
    /\ moved \subseteq Bookings /\ overrun \subseteq Bookings /\ cut \subseteq Bookings
    /\ cancelled \subseteq Nat

\* An id in the list always has its record.  A listed id without one would raise in
\* getBooking at every poll from then on, and no booking behind it in the list would
\* be started or ended again; AddBooking and removeBooking must keep to their order
\* when the sensor dies between their two writes.
ListedHaveRecords == \A b \in Bookings : Listed(b) => rec[b] # None

DeployFlows(b) == {i \in DOMAIN flows : flows[i].kind = "deploy" /\ flows[i].booking = b}
CleanFlows(b) == {i \in DOMAIN flows : flows[i].kind = "clean" /\ flows[i].booking = b}

\* The key of booking b is where the end of the booking will find it, or on its way
\* to the clean workflow.
KeyKept(b, n) ==
    \/ Listed(b) /\ rec[b] # None /\ rec[b].key = n
    \/ pc \in {"forget", "endDispatch"} /\ cur = b /\ copy.key = n
    \/ \E j \in CleanFlows(b) : flows[j].key = n /\ flows[j].stage # "done"

\* Every VPN user can be traced to what will delete it: its deployment is about to
\* note it, the stored booking has its key, or a clean workflow does.  The losses are
\* bookings that ended while being deployed, starts and ends cut short by the death of the
\* sensor, and workflows that failed after they had made the user.
UsersTraceable ==
    \A n \in Names : users[n] # 0 =>
        LET f == flows[users[n]] IN
        \/ f.stage \in {"save", "failed"}
        \/ f.booking \in overrun \cup cut
        \/ KeyKept(f.booking, n)

\* The sensor deploys a booking once and cleans up after it once, whatever it had stored
\* when it died; only a booking whose times were changed may be set up again.
OneFlowEach ==
    \A b \in Bookings \ moved :
        /\ \A i, j \in DeployFlows(b) : i = j
        /\ \A i, j \in CleanFlows(b) : i = j

\* Once the clean workflow is through with imaging, the machine does not carry the
\* booking any more: waitForTask has waited for an imaging that began after the booking
\* had ended.  Not so when FOG could not be asked, when the task was cancelled by another
\* workflow, or when the booking was still being deployed or is set up again.
CleanedMachinesBlank ==
    \A i \in DOMAIN flows :
        /\ flows[i].kind = "clean" /\ flows[i].stage \in {"revoke", "done"}
        /\ ~flows[i].blind /\ flows[i].task \notin cancelled
        /\ flows[i].booking \notin overrun \cup moved
        => disk[flows[i].host] # flows[i].booking

\* A listed booking the sensor cannot handle, as its machine has left the list of hosts,
\* at or before b in the list.
Blocked(b) == \E j, k \in DOMAIN list :
    /\ j <= k /\ list[k] = b
    /\ rec[list[j]] # None /\ rec[list[j]].host \notin servers
    /\ Over(rec[list[j]]) \/ Due(rec[list[j]])

\* A booking that is over is taken off the list, which dispatches its clean workflow,
\* unless a booking at its place or before it makes every poll raise.
EndedBookingsCleaned ==
    \A b \in Bookings :
        (Listed(b) /\ rec[b] # None /\ Over(rec[b])) ~> (~Listed(b) \/ Blocked(b))

\* A machine that was installed for a booking is taken from it before the end of the booking
\* by workflows of other bookings only, never by its own: waitForTask does not let the
\* installers run ahead of an imaging of theirs that is still to come, except when FOG cannot
\* be asked.  (The clean workflow of the booking before may come as late, see the README.)
InstalledMachineKept ==
    [][\A h \in Hosts, b \in Bookings :
          disk[h] = b /\ disk'[h] # b /\ dash[b] # None /\ ~Over(dash[b]) /\ b \notin moved
          => \E i \in DOMAIN flows :
                /\ flows[i].host = h /\ (flows[i].booking # b \/ flows[i].blind)
                /\ task[h] = i \/ flows'[i] # flows[i]]_vars

-----------------------------------------------------------------------------
(* The inductive invariants behind the properties.                           *)

Ending == {"end", "endSave", "unlist", "forget", "endDispatch"}
Starting == {"start", "startSave", "startDispatch"}

\* The sensor has loaded the booking it is at work on, and a workflow what it saves.
InvLoaded ==
    /\ pc \in {"list"} \cup Starting \cup Ending => cur # None
    /\ pc \in Starting \cup Ending => copy # None
    /\ pc \in {"startSave", "endSave"} => draft # None
    /\ \A i \in DOMAIN flows :
          /\ flows[i].stage = "save" => flows[i].draft # None
          /\ flows[i].stage \in {"install", "user", "save"} => flows[i].kind = "deploy"

\* The list has each booking once and with its record; so has the queue made from it.
InvList ==
    /\ IsInjective(list) /\ IsInjective(queue)
    /\ \A k \in DOMAIN queue : Listed(queue[k]) /\ queue[k] # cur
    /\ pc \in {"idle", "add", "check"} => cur = None
    /\ pc = "list" => ~Listed(cur) /\ rec[cur] # None
    /\ pc \in Starting \cup {"end", "endSave", "unlist"} => Listed(cur)
    /\ pc \in {"forget", "endDispatch"} => ~Listed(cur)
    /\ ListedHaveRecords

\* Whoever holds a booking that was not changed has its end, which is past when the sensor
\* ends it.
Times(b) ==
    /\ dash[b] = Schedule[b] /\ seen[b] \in {None, Schedule[b]}
    /\ rec[b] # None => rec[b].end = Schedule[b].end
    /\ cur = b /\ pc \in {"startSave", "endSave"} => draft.end = Schedule[b].end
    /\ cur = b /\ pc \in Ending => now > Schedule[b].end
    /\ \A i \in DOMAIN flows : flows[i].booking = b /\ flows[i].stage = "save" =>
          flows[i].draft.end = Schedule[b].end /\ flows[i].draft.status # 0

\* A booking that was started says so as long as it is listed, and is not listed again; one
\* that was ended is not listed.
Started(b) == DeployFlows(b) # {} \/ (pc = "startDispatch" /\ cur = b)
Ended(b) == CleanFlows(b) # {} \/ (pc \in {"forget", "endDispatch"} /\ cur = b)

Once(b) ==
    /\ Started(b) => /\ rec[b] # None => rec[b].status # 0
                     /\ Listed(b) \/ now > Schedule[b].end
    /\ Ended(b) => ~Listed(b) /\ now > Schedule[b].end
    /\ cur = b /\ pc \in Starting => DeployFlows(b) = {}
    /\ cur = b /\ pc \in {"list"} \cup Ending => CleanFlows(b) = {}
    /\ \A i, j \in DeployFlows(b) : i = j
    /\ \A i, j \in CleanFlows(b) : i = j

InvTimes == \A b \in Bookings \ moved : Times(b)
InvOnce == \A b \in Bookings \ moved : Once(b)

\* Behind UsersTraceable.  A deployment that runs is the only one of its booking, which is
\* listed, marked and not under work, and has no key before the deployment notes it.  So the
\* key in the record is the one the sensor holds when it ends the booking.
Deploying(b) == {i \in DeployFlows(b) : Running(flows[i])}

Deployed(b) ==
    /\ Deploying(b) # {} =>
          /\ Listed(b) /\ rec[b].status # 0 /\ rec[b].key = None
          /\ ~(cur = b /\ pc \in {"list"} \cup Starting \cup Ending)
    /\ \A i, j \in Deploying(b) : i = j
    /\ \A i \in Deploying(b) : flows[i].stage = "save" => flows[i].draft = rec[b]

Keyed(b) ==
    /\ Listed(b) /\ rec[b].status = 0 => rec[b].key = None
    /\ cur = b /\ pc \in {"list"} \cup Starting => rec[b].key = None
    /\ cur = b /\ pc = "startDispatch" => rec[b].status # 0
    /\ cur = b /\ pc \in {"startSave", "endSave"} => draft.key = rec[b].key
    /\ cur = b /\ pc \in {"end", "endSave", "unlist"} => copy.key = rec[b].key

InvDeployed == \A b \in Bookings \ overrun : Deployed(b)
InvKeyed == \A b \in Bookings \ overrun : Keyed(b)

InvUsers ==
    /\ \A n \in Names : users[n] # 0 =>
          /\ users[n] \in DOMAIN flows /\ flows[users[n]].kind = "deploy"
          /\ flows[users[n]].stage \in {"save", "failed", "done"} /\ flows[users[n]].key = n
    /\ UsersTraceable

\* Behind InstalledMachineKept and CleanedMachinesBlank.  The workflow FOG has a task of still
\* waits for it, and a machine carries a booking that a workflow has installed.
InvTasks ==
    \A h \in Hosts : task[h] # 0 =>
        /\ task[h] \in DOMAIN flows /\ flows[task[h]].host = h
        /\ \/ flows[task[h]].stage = "find" \/ flows[task[h]].blind
           \/ flows[task[h]].stage = "watch" /\ flows[task[h]].task = task[h]

InvDisks ==
    \A h \in Hosts : disk[h] # None =>
        \E i \in DeployFlows(disk[h]) :
            flows[i].host = h /\ flows[i].stage \in {"user", "save", "done", "failed"}

\* The task a clean workflow watches was posted after the booking had ended.
InvWatched ==
    \A i \in DOMAIN flows :
        /\ flows[i].kind = "clean" /\ flows[i].stage = "watch"
        /\ flows[i].task \notin cancelled
        /\ flows[i].booking \notin overrun \cup moved
        => \/ disk[flows[i].host] # flows[i].booking
           \/ flows[i].task # 0 /\ task[flows[i].host] = flows[i].task

IInv ==
    /\ TypeOK
    /\ InvLoaded
    /\ InvList
    /\ InvTimes
    /\ InvOnce

\* With the two parts about users, and about tasks and disks.
UInv == IInv /\ InvDeployed /\ InvKeyed /\ InvUsers
DInv == UInv /\ InvTasks /\ InvDisks /\ InvWatched /\ CleanedMachinesBlank
=============================================================================
