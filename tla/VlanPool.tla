------------------------------- MODULE VlanPool -------------------------------
(***************************************************************************)
(* The VLANs of one lab: the pool kept in the row of its VlanManager, the  *)
(* public networks, and the two parties that write them, the web worker    *)
(* that provisions pods (convertResourceBundle) and the celery task        *)
(* booking_poll that gives the VLANs of an ended pod back (cleanup_network).*)
(*                                                                         *)
(* VlanManager keeps the pool as one JSON text.  A VlanManager object is   *)
(* loaded once and then cached by the lab object it belongs to; its        *)
(* methods change the cached list and save the whole row.  An object in    *)
(* use is the field row of its user.                                       *)
(*                                                                         *)
(* Hosts are taken and given back in one step here (PodLifecycle has the   *)
(* detail), and what the lab does with the tasks is left out.              *)
(***************************************************************************)
EXTENDS Naturals, Sequences

CONSTANTS
    Hosts, Ports,       \* machines, and the interfaces each of them has
    Bookings,           \* booking attempts
    Pollers,            \* possible concurrent runs of booking_poll
    Vlans,              \* ids the pool starts with
    PublicVlans,        \* ids of the lab's public networks
    Networks, Public,   \* network names of the templates; the public ones
    Template,           \* per booking: generic hosts, port by port their networks
    None

ASSUME VlansAssumption ==
    Vlans \subseteq Nat /\ PublicVlans \subseteq Nat /\ Vlans \cap PublicVlans = {}
ASSUME TemplateAssumption == Template \in [Bookings -> Seq([Ports -> SUBSET Networks])]
ASSUME NetworksAssumption == Public \subseteq Networks
ASSUME NullAssumption == None \notin Bookings \cup Hosts \cup Ports \cup Nat

VARIABLES
    pool,       \* VlanManager.vlans in the database: the available ids
    inUse,      \* PublicNetwork.in_use
    config,     \* Interface.config: the ids a port is configured with
    pod,        \* Host.bundle, by booking
    phase,      \* of a booking
    rel,        \* the hosts a booking has a HostNetworkRelation for
    vmap,       \* the vlan_map of a booking attempt
    web,        \* the conversion in progress
    poll        \* the runs of booking_poll

(* History variables: the accidents the properties except.                 *)
VARIABLES
    lost,       \* a save of the pool overwrote another actor's save
    cleaning,   \* bookings whose cleanup has begun
    broken      \* bookings with a partial job, or a cleanup crossed or redone

histVars == <<lost, cleaning, broken>>
vars == <<pool, inUse, config, pod, phase, rel, vmap, web, poll, histVars>>

----------------------------------------------------------------------------
Ids == Vlans \cup PublicVlans
IdleWeb == [op |-> "idle", b |-> None, todo |-> {}, row |-> {}, next |-> 1]
IdlePoll == [cur |-> None, hosts |-> {}, host |-> None, ports |-> {}, port |-> None,
             acc |-> {}, row |-> {}, loaded |-> FALSE]

Webs == [op : {"idle", "convert", "undo"}, b : Bookings \cup {None},
         todo : SUBSET Networks, row : SUBSET Vlans, next : Nat]
Polls == [cur : Bookings \cup {None}, hosts : SUBSET Hosts, host : Hosts \cup {None},
          ports : SUBSET Ports, port : Ports \cup {None}, acc : SUBSET Vlans,
          row : SUBSET Vlans, loaded : BOOLEAN]
Phases == {"unused", "failed", "live", "ended", "cleaned", "freed", "deleted"}

PollsOK ==
    /\ poll \in [Pollers -> Polls]
    /\ \A p \in Pollers : poll[p].port # None => poll[p].host # None
    /\ \A p \in Pollers : poll[p].host # None => poll[p].cur # None

TypeOK ==
    /\ pool \subseteq Vlans
    /\ inUse \subseteq PublicVlans
    /\ config \in [Hosts -> [Ports -> SUBSET Ids]]
    /\ pod \in [Hosts -> Bookings \cup {None}]
    /\ phase \in [Bookings -> Phases]
    /\ rel \in [Bookings -> SUBSET Hosts]
    /\ vmap \in [Bookings -> [Networks -> Ids \cup {None}]]
    /\ web \in Webs
    /\ web.op # "idle" => web.b \in Bookings
    /\ PollsOK
    /\ lost \in BOOLEAN
    /\ cleaning \subseteq Bookings
    /\ broken \subseteq Bookings

Init ==
    /\ pool = Vlans
    /\ inUse = {}
    /\ config = [h \in Hosts |-> [x \in Ports |-> {}]]
    /\ pod = [h \in Hosts |-> None]
    /\ phase = [b \in Bookings |-> "unused"]
    /\ rel = [b \in Bookings |-> {}]
    /\ vmap = [b \in Bookings |-> [n \in Networks |-> None]]
    /\ web = IdleWeb
    /\ poll = [p \in Pollers |-> IdlePoll]
    /\ lost = FALSE /\ cleaning = {} /\ broken = {}

----------------------------------------------------------------------------
NetworksOf(b) == UNION {Template[b][i][x] : i \in 1..Len(Template[b]), x \in Ports}
PodOf(b) == {h \in Hosts : pod[h] = b}
Held(b) == {vmap[b][n] : n \in Networks} \ {None}

(* The whole row is written from an object whose list was row.             *)
SavePool(row, new) ==
    /\ pool' = new
    /\ lost' = (lost \/ row # pool)

(* Hosts of b go back; their ports stay configured.                        *)
ReleasePod(b) == pod' = [h \in Hosts |-> IF pod[h] = b THEN None ELSE pod[h]]

----------------------------------------------------------------------------
(* The web worker: convertResourceBundle. *)

StartConvert(b) ==
    /\ web.op = "idle" /\ phase[b] = "unused"
    /\ web' = [op |-> "convert", b |-> b, todo |-> NetworksOf(b), row |-> pool, next |-> 1]
    /\ UNCHANGED <<pool, inUse, config, pod, phase, rel, vmap, poll, histVars>>

(* get_vlans, a public network: the first one not in use.                  *)
ReservePublic(n) ==
    /\ web.op = "convert" /\ n \in web.todo \cap Public
    /\ \E v \in PublicVlans \ inUse :
         /\ \A w \in PublicVlans \ inUse : v <= w
         /\ inUse' = inUse \cup {v}
         /\ vmap' = [vmap EXCEPT ![web.b][n] = v]
    /\ web' = [web EXCEPT !.todo = @ \ {n}]
    /\ UNCHANGED <<pool, config, pod, phase, rel, poll, histVars>>

(* Mutant: reserve_vlans changes the cached list and does not save it.    *)
ReservePrivateUnsaved(n) ==
    /\ web.op = "convert" /\ n \in web.todo \ Public
    /\ \E v \in web.row :
         /\ web' = [web EXCEPT !.todo = @ \ {n}, !.row = @ \ {v}]
         /\ vmap' = [vmap EXCEPT ![web.b][n] = v]
    /\ UNCHANGED <<pool, inUse, config, pod, phase, rel, poll, histVars>>

(* Mutant: the id is reserved in the row, not in the list it came from.    *)
ReservePrivateStale(n) ==
    /\ web.op = "convert" /\ n \in web.todo \ Public
    /\ \E v \in web.row :
         /\ \A w \in web.row : v <= w
         /\ web' = [web EXCEPT !.todo = @ \ {n}]
         /\ SavePool(web.row, web.row \ {v})
         /\ vmap' = [vmap EXCEPT ![web.b][n] = v]
    /\ UNCHANGED <<inUse, config, pod, phase, rel, poll, cleaning, broken>>

(* get_vlans, a private network: get_vlan finds the first available id in  *)
(* the cached list, reserve_vlans takes it off that list and saves.        *)
ReservePrivate(n) ==
    /\ web.op = "convert" /\ n \in web.todo \ Public
    /\ \E v \in web.row :
         /\ \A w \in web.row : v <= w
         /\ web' = [web EXCEPT !.todo = @ \ {n}, !.row = @ \ {v}]
         /\ SavePool(web.row, web.row \ {v})
         /\ vmap' = [vmap EXCEPT ![web.b][n] = v]
    /\ UNCHANGED <<inUse, config, pod, phase, rel, poll, cleaning, broken>>

(* The conversion ends without fail_acquire: no id is left, so get_vlan or *)
(* get_public_vlan raises in the middle of get_vlans; or all ids are       *)
(* reserved and the lookup of a host configuration raises, or after the    *)
(* conversion the booking cannot be saved.                                 *)
FailConvert ==
    /\ web.op = "convert"
    /\ \/ web.todo = {}
       \/ web.todo \ Public # {} /\ web.row = {}
       \/ web.todo \cap Public # {} /\ PublicVlans \subseteq inUse
    /\ phase' = [phase EXCEPT ![web.b] = "failed"]
    /\ web' = IdleWeb
    /\ UNCHANGED <<pool, inUse, config, pod, rel, vmap, poll, histVars>>

(* acquireHost and configureNetworking: every port loses the configuration *)
(* of its last pod and gets the ids of the networks the template wires.    *)
AcquireHost(h) ==
    /\ web.op = "convert" /\ web.todo = {} /\ web.next <= Len(Template[web.b])
    /\ pod[h] = None
    /\ pod' = [pod EXCEPT ![h] = web.b]
    /\ config' = [config EXCEPT ![h] =
                    [x \in Ports |-> {vmap[web.b][n] : n \in Template[web.b][web.next][x]} \cap Ids]]
    /\ web' = [web EXCEPT !.next = @ + 1]
    /\ UNCHANGED <<pool, inUse, phase, rel, vmap, poll, histVars>>

(* No host is left, or configuring or saving one fails: fail_acquire.      *)
FailAcquire ==
    /\ web.op = "convert" /\ web.todo = {}
    /\ web' = [web EXCEPT !.op = "undo", !.todo = NetworksOf(web.b)]
    /\ UNCHANGED <<pool, inUse, config, pod, phase, rel, vmap, poll, histVars>>

(* releaseNetworks, one network at a time, on the list cached since the    *)
(* conversion began.                                                       *)
ReleasePrivate(n) ==
    /\ web.op = "undo" /\ n \in web.todo \ Public
    /\ web' = [web EXCEPT !.todo = @ \ {n}, !.row = @ \cup ({vmap[web.b][n]} \cap Vlans)]
    /\ SavePool(web.row, web'.row)
    /\ UNCHANGED <<inUse, config, pod, phase, rel, vmap, poll, cleaning, broken>>

(* release_public_vlan raises when the network is not in use (any more),   *)
(* which ends the request before the rest is released.                     *)
ReleasePublic(n) ==
    /\ web.op = "undo" /\ n \in web.todo \cap Public
    /\ IF vmap[web.b][n] \in inUse
       THEN /\ inUse' = inUse \ {vmap[web.b][n]}
            /\ web' = [web EXCEPT !.todo = @ \ {n}]
            /\ UNCHANGED phase
       ELSE /\ web' = IdleWeb
            /\ phase' = [phase EXCEPT ![web.b] = "failed"]
            /\ UNCHANGED inUse
    /\ UNCHANGED <<pool, config, pod, rel, vmap, poll, histVars>>

FinishUndo ==
    /\ web.op = "undo" /\ web.todo = {}
    /\ ReleasePod(web.b)
    /\ phase' = [phase EXCEPT ![web.b] = "failed"]
    /\ web' = IdleWeb
    /\ UNCHANGED <<pool, inUse, config, rel, vmap, poll, histVars>>

(* The booking is saved and its job made; makeCompleteJob may raise before *)
(* every host has its network relation.                                    *)
FinishConvert(R) ==
    /\ web.op = "convert" /\ web.todo = {} /\ web.next > Len(Template[web.b])
    /\ R \subseteq PodOf(web.b)
    /\ rel' = [rel EXCEPT ![web.b] = R]
    /\ phase' = [phase EXCEPT ![web.b] = "live"]
    /\ broken' = IF R = PodOf(web.b) THEN broken ELSE broken \cup {web.b}
    /\ web' = IdleWeb
    /\ UNCHANGED <<pool, inUse, config, pod, vmap, poll, lost, cleaning>>

EndBooking(b) ==
    /\ phase[b] = "live"
    /\ phase' = [phase EXCEPT ![b] = "ended"]
    /\ UNCHANGED <<pool, inUse, config, pod, rel, vmap, web, poll, histVars>>

(* Booking.delete gives the hosts back and never the VLANs.                *)
DeleteBooking(b) ==
    /\ web.op = "idle" /\ phase[b] \in {"live", "ended", "cleaned"}
    /\ ReleasePod(b)
    /\ rel' = [rel EXCEPT ![b] = {}]
    /\ phase' = [phase EXCEPT ![b] = "deleted"]
    /\ broken' = IF \E p \in Pollers : poll[p].cur = b THEN broken \cup {b} ELSE broken
    /\ UNCHANGED <<pool, inUse, config, vmap, web, poll, lost, cleaning>>

----------------------------------------------------------------------------
(* booking_poll: cleanup_network. *)

PickCleanup(p, b) ==
    /\ poll[p] = IdlePoll /\ phase[b] = "ended"
    /\ poll' = [poll EXCEPT ![p] = [IdlePoll EXCEPT !.cur = b, !.hosts = rel[b]]]
    /\ cleaning' = cleaning \cup {b}
    /\ broken' = IF b \in cleaning THEN broken \cup {b} ELSE broken
    /\ UNCHANGED <<pool, inUse, config, pod, phase, rel, vmap, web, lost>>

(* The next relation: its host is loaded, and nothing is cached yet.       *)
PickHost(p, h) ==
    /\ poll[p].cur # None /\ poll[p].host = None /\ h \in poll[p].hosts
    /\ poll' = [poll EXCEPT ![p] = [@ EXCEPT !.host = h, !.ports = Ports, !.acc = {},
                                             !.row = {}, !.loaded = FALSE]]
    /\ UNCHANGED <<pool, inUse, config, pod, phase, rel, vmap, web, histVars>>

(* Mutant: public ids are put on the list of private ones as well.        *)
ReadPortMixed(p, x) ==
    LET found == config[poll[p].host][x] IN
    /\ poll[p].host # None /\ poll[p].port = None /\ x \in poll[p].ports
    /\ inUse' = inUse \ found
    /\ poll' = [poll EXCEPT ![p].port = x, ![p].acc = @ \cup found]
    /\ UNCHANGED <<pool, config, pod, phase, rel, vmap, web, histVars>>

(* One port is read.  Its public networks are released at once, whoever    *)
(* uses them now; its private ids join those of the ports before it, for   *)
(* the list vlans is emptied only with the next host.  The first id found  *)
(* on a host loads the manager.                                            *)
ReadPort(p, x) ==
    LET found == config[poll[p].host][x] IN
    /\ poll[p].host # None /\ poll[p].port = None /\ x \in poll[p].ports
    /\ inUse' = inUse \ found
    /\ poll' = [poll EXCEPT ![p] =
                  [@ EXCEPT !.port = x,
                            !.acc = poll[p].acc \cup (found \cap Vlans),
                            !.row = IF found # {} /\ ~poll[p].loaded THEN pool ELSE poll[p].row,
                            !.loaded = (poll[p].loaded \/ found # {})]]
    /\ UNCHANGED <<pool, config, pod, phase, rel, vmap, web, histVars>>

(* Mutant: interface.config.clear() is missing.                            *)
ClearPortKeepConfig(p) ==
    LET new == poll[p].row \cup poll[p].acc IN
    /\ poll[p].port # None
    /\ IF poll[p].acc # {} THEN SavePool(poll[p].row, new) ELSE UNCHANGED <<pool, lost>>
    /\ poll' = [poll EXCEPT ![p] = [@ EXCEPT !.port = None,
                                             !.ports = poll[p].ports \ {poll[p].port},
                                             !.row = IF poll[p].acc # {} THEN new ELSE poll[p].row]]
    /\ UNCHANGED <<inUse, config, pod, phase, rel, vmap, web, cleaning, broken>>

(* Mutant: the call of release_vlans is missing.                           *)
ClearPortKeepVlans(p) ==
    /\ poll[p].port # None
    /\ config' = [config EXCEPT ![poll[p].host][poll[p].port] = {}]
    /\ poll' = [poll EXCEPT ![p].port = None, ![p].ports = @ \ {poll[p].port}]
    /\ UNCHANGED <<pool, inUse, pod, phase, rel, vmap, web, histVars>>

(* release_vlans on the cached list, then the port's configuration goes.   *)
ClearPort(p) ==
    LET new == poll[p].row \cup poll[p].acc IN
    /\ poll[p].port # None
    /\ IF poll[p].acc # {} THEN SavePool(poll[p].row, new) ELSE UNCHANGED <<pool, lost>>
    /\ config' = [config EXCEPT ![poll[p].host][poll[p].port] = {}]
    /\ poll' = [poll EXCEPT ![p] = [@ EXCEPT !.port = None,
                                             !.ports = poll[p].ports \ {poll[p].port},
                                             !.row = IF poll[p].acc # {} THEN new ELSE poll[p].row]]
    /\ UNCHANGED <<inUse, pod, phase, rel, vmap, web, cleaning, broken>>

(* The relation is saved, which fails if the booking was deleted.          *)
FinishHost(p) ==
    /\ poll[p].host # None /\ poll[p].port = None /\ poll[p].ports = {}
    /\ poll' = IF phase[poll[p].cur] = "deleted"
               THEN [poll EXCEPT ![p] = IdlePoll]
               ELSE [poll EXCEPT ![p] = [@ EXCEPT !.host = None,
                                                  !.hosts = poll[p].hosts \ {poll[p].host}]]
    /\ UNCHANGED <<pool, inUse, config, pod, phase, rel, vmap, web, histVars>>

(* job.complete = True; a job that is complete already stays so.           *)
FinishCleanup(p) ==
    LET b == poll[p].cur IN
    /\ b # None /\ poll[p].host = None /\ poll[p].hosts = {}
    /\ phase' = IF phase[b] = "ended" THEN [phase EXCEPT ![b] = "cleaned"] ELSE phase
    /\ poll' = [poll EXCEPT ![p] = IdlePoll]
    /\ UNCHANGED <<pool, inUse, config, pod, rel, vmap, web, histVars>>

(* The celery process dies or the task raises; the next run starts over.   *)
AbortPoll(p) ==
    /\ poll[p].cur # None
    /\ poll' = [poll EXCEPT ![p] = IdlePoll]
    /\ UNCHANGED <<pool, inUse, config, pod, phase, rel, vmap, web, histVars>>

(* free_hosts.                                                             *)
FreePod(b) ==
    /\ phase[b] = "cleaned"
    /\ ReleasePod(b)
    /\ phase' = [phase EXCEPT ![b] = "freed"]
    /\ UNCHANGED <<pool, inUse, config, rel, vmap, web, poll, histVars>>

----------------------------------------------------------------------------
WebStep ==
    \/ \E b \in Bookings : StartConvert(b) \/ DeleteBooking(b)
    \/ \E n \in Networks : ReservePublic(n) \/ ReservePrivate(n)
                             \/ ReleasePublic(n) \/ ReleasePrivate(n)
    \/ \E h \in Hosts : AcquireHost(h)
    \/ FailConvert \/ FailAcquire \/ FinishUndo
    \/ \E R \in SUBSET Hosts : FinishConvert(R)

PollStep(p) ==
    \/ \E b \in Bookings : PickCleanup(p, b)
    \/ \E h \in Hosts : PickHost(p, h)
    \/ \E x \in Ports : ReadPort(p, x)
    \/ ClearPort(p) \/ FinishHost(p) \/ FinishCleanup(p) \/ AbortPoll(p)

Next ==
    \/ WebStep
    \/ \E p \in Pollers : PollStep(p)
    \/ \E b \in Bookings : EndBooking(b) \/ FreePod(b)

Spec == Init /\ [][Next]_vars

----------------------------------------------------------------------------
(* A template is plain when it connects every network to one port only.    *)
Plain(b) ==
    \A i, j \in 1..Len(Template[b]) : \A x, y \in Ports :
        Template[b][i][x] \cap Template[b][j][y] # {} => i = j /\ x = y

(* Nothing happened that makes the pool wrong: templates are plain, no job *)
(* is partial, and no cleanup ran twice or was crossed by a delete.        *)
Orderly == broken = {} /\ \A b \in Bookings : Plain(b)

(* A network on a port of a live pod is not there for another pod: its id  *)
(* is not available in the pool, unless a save of the pool was lost, and a *)
(* public one, which is a row of its own, is marked in use.  Cleanups that *)
(* are not orderly are excepted.                                           *)
LivePodsKeepNetworks ==
    Orderly =>
        \A h \in Hosts, x \in Ports :
            pod[h] # None /\ phase[pod[h]] = "live" =>
                /\ ~lost => config[h][x] \cap pool = {}
                /\ config[h][x] \cap PublicVlans \subseteq inUse

(* Two networks of one pod never get the same id, whatever other actors    *)
(* did to the pool while the conversion ran on its cached list.            *)
NetworksApart ==
    \A b \in Bookings : \A m, n \in Networks \ Public :
        m # n /\ vmap[b][m] # None => vmap[b][m] # vmap[b][n]

(* When a job is complete no port of a cleaned machine carries a network   *)
(* of the pod any more, even when runs overlapped or started over.         *)
CleanedPodsUnwired ==
    \A b \in Bookings : phase[b] = "cleaned" =>
        \A h \in rel[b], x \in Ports : pod[h] = b => config[h][x] = {}

(* No id is lost: one that is not available belongs to a booking that has  *)
(* still to give it back, or that failed or was deleted, which give        *)
(* nothing back, or a save was lost or a cleanup not orderly.              *)
VlansAccountedFor ==
    ~lost /\ broken = {} =>
        \A v \in Vlans \ pool : \E b \in Bookings :
            v \in Held(b) /\ phase[b] \notin {"cleaned", "freed"}

(* The inductive invariant behind NetworksApart and CleanedPodsUnwired.    *)

(* A conversion works on a fresh attempt, and its cached list no longer    *)
(* holds the ids it has given out.                                         *)
InvConvert ==
    /\ web.op # "idle" => phase[web.b] = "unused"
    /\ \A b \in Bookings : phase[b] = "unused" /\ (web.op = "idle" \/ web.b # b) =>
         \A n \in Networks : vmap[b][n] = None
    /\ web.op = "convert" => \A n \in Networks \ Public :
         /\ n \in web.todo => vmap[web.b][n] = None
         /\ vmap[web.b][n] \notin web.row

(* The ports a run has been through are not wired any more.                *)
InvCleanup ==
    \A p \in Pollers : poll[p].cur # None =>
        /\ phase[poll[p].cur] \in {"ended", "cleaned", "freed", "deleted"}
        /\ \A h \in rel[poll[p].cur], x \in Ports :
             /\ pod[h] = poll[p].cur
             /\ h \notin poll[p].hosts \/ (h = poll[p].host /\ x \notin poll[p].ports)
             => config[h][x] = {}

IInv ==
    /\ TypeOK
    /\ InvConvert
    /\ InvCleanup
    /\ NetworksApart
    /\ CleanedPodsUnwired

(* The inductive invariant behind LivePodsKeepNetworks and                 *)
(* VlansAccountedFor.                                                      *)

(* A private network gets an id of the pool, a public one a public id; only*)
(* the conversion under way has hosts without a saved booking.             *)
InvGiven ==
    /\ \A b \in Bookings, n \in Networks :
         vmap[b][n] \in (IF n \in Public THEN PublicVlans ELSE Vlans) \cup {None}
    /\ \A h \in Hosts : pod[h] # None /\ phase[pod[h]] = "unused" =>
         web.op # "idle" /\ web.b = pod[h]

(* A pod that is whole has its relations.                                  *)
Standing == {"live", "ended"}

InvWhole ==
    broken = {} => \A b \in Bookings : phase[b] \in Standing => rel[b] = PodOf(b)

(* One run cleans it.  The run knows what the port it is at carries, and   *)
(* its cached list has what it gave back before.                           *)
Carried(p) == config[poll[p].host][poll[p].port]

Steady(p) ==
    /\ phase[poll[p].cur] = "ended" /\ poll[p].cur \in cleaning
    /\ \A q \in Pollers : poll[q].cur = poll[p].cur => q = p
    /\ poll[p].hosts \subseteq rel[poll[p].cur]
    /\ poll[p].host \in poll[p].hosts \cup {None}
    /\ poll[p].host # None =>
         /\ ~poll[p].loaded => poll[p].acc = {}
         /\ poll[p].port = None => poll[p].acc \subseteq poll[p].row
    /\ poll[p].port # None =>
         Carried(p) \cap Vlans \subseteq poll[p].acc /\ poll[p].acc \subseteq poll[p].row \cup Carried(p)

InvRuns == broken = {} => \A p \in Pollers : poll[p].cur # None => Steady(p)

(* Hosts are acquired when every network has its id ...                    *)
InvNets ==
    web.op = "convert" =>
        /\ web.todo \subseteq NetworksOf(web.b)
        /\ \A n \in Networks : vmap[web.b][n] # None <=> n \in NetworksOf(web.b) \ web.todo
        /\ web.next \in 1..(Len(Template[web.b]) + 1)
        /\ web.next > 1 => web.todo = {}

(* ... and each is wired as its place in the template says.                *)
Wired(b, i, x) == {vmap[b][n] : n \in Template[b][i][x]} \cap Ids

Acquired(host) ==
    /\ PodOf(web.b) = {host[i] : i \in 1..(web.next - 1)}
    /\ \A i \in 1..(web.next - 1), x \in Ports : config[host[i]][x] = Wired(web.b, i, x)

InvWired ==
    web.op = "convert" /\ broken = {} => \E host \in [1..(web.next - 1) -> Hosts] : Acquired(host)

(* An id that is not available is on a port of the pod it was given to, or *)
(* was given to an attempt that is not a pod, or not one any more.         *)
Owns(b, v) ==
    /\ v \in Held(b)
    /\ \/ phase[b] \in {"unused", "failed", "deleted"}
       \/ /\ phase[b] \in Standing
          /\ \E h \in PodOf(b), x \in Ports : v \in config[h][x]

InvOwned ==
    ~lost /\ broken = {} => \A v \in Vlans \ pool : \E b \in Bookings : Owns(b, v)

(* After a lost save only the public ids, rows of their own, are watched.  *)
Watched == IF lost THEN PublicVlans ELSE Ids

Free == {v \in Watched : v \in pool \/ v \in PublicVlans \ inUse}

(* The ids the conversion has reserved and not given back.                 *)
Reserving == {n \in Networks : web.op = "convert" \/ (web.op = "undo" /\ n \in web.todo)}
Reserved == {v \in Watched : \E n \in Reserving : v = vmap[web.b][n]}

(* The ids a port of a pod keeps from others.  A public one is released    *)
(* when the port is read; a run that died is not begun again in an orderly *)
(* history.                                                                *)
Unread(h, x) ==
    \/ phase[pod[h]] = "live"
    \/ pod[h] \notin cleaning
    \/ \E p \in Pollers : poll[p].cur = pod[h] /\ (poll[p].host # h \/ poll[p].port # x)

Keeps(h, x) ==
    {v \in Watched : /\ v \in config[h][x]
                     /\ pod[h] # None /\ phase[pod[h]] \in Standing
                     /\ v \in Vlans \/ Unread(h, x)}

(* An id is available, reserved, or kept by one port ...                   *)
InvApart ==
    Orderly =>
        /\ Reserved \cap Free = {}
        /\ \A h \in Hosts, x \in Ports : Keeps(h, x) \cap (Free \cup Reserved) = {}
        /\ \A h, g \in Hosts, x, y \in Ports :
             h # g \/ x # y => Keeps(h, x) \cap Keeps(g, y) = {}

(* ... and given to one network of the conversion.                         *)
InvDistinct ==
    Orderly /\ web.op # "idle" =>
        \A m, n \in Networks : m # n /\ vmap[web.b][m] # None => vmap[web.b][m] # vmap[web.b][n]

PInv ==
    /\ IInv
    /\ InvGiven
    /\ InvWhole
    /\ InvRuns
    /\ InvNets
    /\ InvWired
    /\ InvOwned
    /\ InvApart
    /\ InvDistinct

=============================================================================
