------------------------------ MODULE Validator ------------------------------
(***************************************************************************)
(* The validation tool of src/validator: pharos-validator-server brings up *)
(* a DHCP server, powers the nodes of the inventory on, pings the          *)
(* addresses of the admin network until as many answer as there are nodes, *)
(* and starts one thread for each that runs the hardware test there over   *)
(* ssh, many times.  A node sends each result to the server's receiver,    *)
(* whose reader threads put it in a queue; the main thread logs what it    *)
(* takes out and ends as soon as it finds the queue empty.                 *)
(*                                                                         *)
(* An address is its last number.  The two ends of the usable range are    *)
(* compared as text, as the code does.  A result is which run of the test  *)
(* sent it, the tests passed (HardwareTest) and whether all of it arrived. *)
(* Dhcp.py imports a module the repository does not have (specification,   *)
(* its constants are in const.py): the model reads the program as if it    *)
(* did.                                                                    *)
(***************************************************************************)
EXTENDS Integers, Sequences, FiniteSets, SequencesExt, HardwareTest

CONSTANTS
    Top,        \* the last host address of the admin network
    Installer,  \* the address of the machine the server runs on
    Ends,       \* the addresses the configuration may name as ends
    Machines,   \* the addresses the nodes of the pod get
    Foreign,    \* other addresses that answer a ping
    Hardware,   \* what each of them is made of
    MaxNodes,   \* the longest inventory
    Passes,     \* how often ping_network goes over the range (20)
    Attempts,   \* how often a thread runs the test (200)
    MaxTrouble  \* bound: lost pings, failed ssh runs, cut connections

Addresses == 1 .. Top

ASSUME ValidatorAssumption ==
    /\ Top \in 1 .. 254
    /\ Installer \in Addresses
    /\ Ends \subseteq Addresses
    /\ Machines \subseteq Addresses
    /\ Foreign \subseteq Addresses \ Machines
    /\ \A a \in Machines : Machine(Hardware[a]) /\ Hardware[a].memory < MIN_MEMSIZE \div 2
    /\ MaxNodes \in Nat
    /\ Passes \in Nat \ {0}
    /\ Attempts \in Nat \ {0}
    /\ MaxTrouble \in Nat

VARIABLES
    config,   \* what the network file and the inventory say
    stage,    \* where the main thread is
    up,       \* the addresses that answer
    pass,     \* which pass of ping_network
    todo,     \* the rest of this pass's copy of the range
    left,     \* ip_range_list: not yet seen up
    alive,    \* alive_ips
    tries,    \* the attempts each ssh thread has left
    listening,\* the receiver holds its port
    conns,    \* connections a reader thread has to read
    logs_q,   \* the queue of results
    logged,   \* the results in the test log
    trouble   \* what has gone wrong so far

vars == <<config, stage, up, pass, todo, left, alive, tries, listening, conns,
          logs_q, logged, trouble>>

-----------------------------------------------------------------------------
(* The usable range.                                                       *)

Digits(n) ==
    IF n < 10 THEN <<n>>
    ELSE IF n < 100 THEN <<n \div 10, n % 10>>
    ELSE <<n \div 100, (n \div 10) % 10, n % 10>>

(* An end of the range as it stands in the file: after a comma there may   *)
(* be a space, which no digit comes before.                                *)
Text(n, spaced) == IF spaced THEN <<-1>> \o Digits(n) ELSE Digits(n)

Before(s, t) ==
    \/ IsStrictPrefix(s, t)
    \/ \E i \in DOMAIN s \cap DOMAIN t :
          s[i] < t[i] /\ \A j \in 1 .. i - 1 : s[j] = t[j]

Minimum(c) ==
    LET s == Text(c.first, FALSE)  t == Text(c.second, c.spaced)
    IN  IF Before(t, s) THEN t ELSE s

Maximum(c) ==
    LET s == Text(c.first, FALSE)  t == Text(c.second, c.spaced)
    IN  IF Before(t, s) THEN s ELSE t

(* Where an end of the range is in the list, if it is: at most one place.  *)
Places(s, t) == {i \in DOMAIN s : Text(s[i], FALSE) = t}

(* Nothing is cut off at an end that is not in the list.                   *)
FromMinimum(s, t) ==
    IF Places(s, t) = {} THEN s
    ELSE SubSeq(s, CHOOSE i \in Places(s, t) : TRUE, Len(s))

UpToMaximum(s, t) ==
    IF Places(s, t) = {} THEN s
    ELSE SubSeq(s, 1, CHOOSE i \in Places(s, t) : TRUE)

gen_ip_range(c) ==
    LET hosts == RemoveAt([i \in Addresses |-> i], Installer)
    IN  UpToMaximum(FromMinimum(hosts, Minimum(c)), Maximum(c))

-----------------------------------------------------------------------------
Config == [first : Ends, second : Ends, spaced : BOOLEAN,
           network : {"complete", "incomplete", "disabled"},
           inventory : {"complete", "incomplete"},
           nodes : 0 .. MaxNodes]

Init ==
    /\ config \in Config
    /\ stage = "dhcp"
    /\ up = Foreign
    /\ pass = 0
    /\ todo = <<>> /\ left = <<>> /\ alive = <<>>
    /\ tries = [a \in Addresses |-> 0]
    /\ listening = FALSE
    /\ conns = {} /\ logs_q = <<>> /\ logged = <<>>
    /\ trouble = 0

Running == stage \notin {"done", "halted"}

(* The test raises there, and nothing is sent.                             *)
Broken == {a \in Machines : Raises(Hardware[a])}

(* What it finds otherwise, and where it should find no fault.             *)
Report == [a \in Machines |-> hardware_test(Hardware[a])]
Sound == {a \in Machines : Meets(Hardware[a])}

(* Something outside the program goes wrong.                               *)
Trouble == trouble < MaxTrouble /\ trouble' = trouble + 1

(* The receiver's thread ends at once when the port is taken.              *)
StartReceiver ==
    \/ listening' = TRUE /\ UNCHANGED trouble
    \/ Trouble /\ UNCHANGED listening

(* gen_dhcpd_file quits when the network is disabled, and an attribute the *)
(* file did not give is missing; else the receiver is started.             *)
StartServers ==
    /\ stage = "dhcp"
    /\ config.network = "complete"
    /\ stage' = "power"
    /\ StartReceiver
    /\ UNCHANGED <<config, up, pass, todo, left, alive, tries, conns, logs_q, logged>>

(* The main thread gives up before it pings.                               *)
Halt ==
    /\ \/ stage = "dhcp" /\ config.network # "complete" /\ UNCHANGED trouble
       \/ stage = "power" /\ config.inventory # "complete" /\ config.nodes > 0
             /\ UNCHANGED trouble
       \/ stage = "dhcp" /\ Trouble
       \/ stage = "power" /\ config.nodes > 0 /\ Trouble
    /\ stage' = "halted"
    /\ UNCHANGED <<config, up, pass, todo, left, alive, tries, listening, conns,
                   logs_q, logged>>

PowerOn ==
    /\ stage = "power"
    /\ config.inventory = "complete" \/ config.nodes = 0
    /\ stage' = "ping"
    /\ left' = gen_ip_range(config)
    /\ todo' = left'
    /\ pass' = 1
    /\ UNCHANGED <<config, up, alive, tries, listening, conns, logs_q, logged, trouble>>

(* A machine that was powered on has booted over PXE, or was up before.    *)
Boot(a) ==
    /\ a \in Machines \ up
    /\ up' = up \cup {a}
    /\ UNCHANGED <<config, stage, pass, todo, left, alive, tries, listening, conns,
                   logs_q, logged, trouble>>

EnoughLater == Len(alive') > config.nodes

Enough == Len(alive') >= config.nodes

Ping ==
    /\ stage = "ping" /\ todo # <<>>
    /\ LET a == Head(todo) IN
          \/ /\ a \in up
             /\ \E k \in DOMAIN left : left[k] = a /\ left' = RemoveAt(left, k)
             /\ alive' = Append(alive, a)
             /\ UNCHANGED trouble
          \/ a \notin up /\ UNCHANGED <<left, alive, trouble>>
          \/ a \in up /\ Trouble /\ UNCHANGED <<left, alive>>
    /\ todo' = IF Enough THEN <<>> ELSE Tail(todo)
    /\ UNCHANGED <<config, stage, up, pass, tries, listening, conns, logs_q, logged>>

(* After a pass: another one, or a thread for every address found.         *)
EndPass ==
    /\ stage = "ping" /\ todo = <<>>
    /\ UNCHANGED alive
    /\ IF Enough \/ pass = Passes
       THEN /\ stage' = "wait"
            /\ tries' = [a \in Addresses |-> IF a \in ToSet(alive) THEN Attempts ELSE 0]
            /\ UNCHANGED <<pass, todo>>
       ELSE /\ pass' = pass + 1
            /\ todo' = left
            /\ UNCHANGED <<stage, tries>>
    /\ UNCHANGED <<config, up, left, listening, conns, logs_q, logged, trouble>>

-----------------------------------------------------------------------------
(* The ssh threads, the reader threads and the main thread's loop.         *)

(* The node has connected to the receiver and sends what it found.         *)
Send(a, whole) ==
    conns' = conns \cup {[from |-> a, run |-> tries[a], whole |-> whole,
                          passed |-> Report[a]]}

(* The test ran on the node; the connection may break.                     *)
RunTest(a) ==
    /\ Running /\ listening /\ tries[a] > 0
    /\ a \in Machines \ Broken
    /\ tries' = [tries EXCEPT ![a] = @ - 1]
    /\ \/ Send(a, TRUE) /\ UNCHANGED trouble
       \/ Send(a, FALSE) /\ Trouble
    /\ UNCHANGED <<config, stage, up, pass, todo, left, alive, listening, logs_q, logged>>

FailTestOnceMore(a) ==
    /\ Running /\ tries[a] >= 0
    /\ \/ (a \notin Machines \ Broken \/ ~listening) /\ UNCHANGED trouble
       \/ a \in Machines \ Broken /\ listening /\ Trouble
    /\ tries' = [tries EXCEPT ![a] = @ - 1]
    /\ UNCHANGED <<config, stage, up, pass, todo, left, alive, listening, conns,
                   logs_q, logged>>

(* No ssh, no such program, an exception in the test, or no connection to  *)
(* the receiver: the thread ignores the status and tries again.            *)
FailTest(a) ==
    /\ Running /\ tries[a] > 0
    /\ \/ (a \notin Machines \ Broken \/ ~listening) /\ UNCHANGED trouble
       \/ a \in Machines \ Broken /\ listening /\ Trouble
    /\ tries' = [tries EXCEPT ![a] = @ - 1]
    /\ UNCHANGED <<config, stage, up, pass, todo, left, alive, listening, conns,
                   logs_q, logged>>

(* A cut in the first line leaves no number, and the reader dies of it; a  *)
(* cut later leaves the lines that came.                                   *)
Readable(c) == IF c.whole THEN {TRUE} ELSE BOOLEAN

(* The reader thread of a connection puts what it has read into the queue. *)
ReadMessage(c) ==
    /\ Running /\ c \in conns
    /\ conns' = conns \ {c}
    /\ \E ok \in Readable(c) : logs_q' = IF ok THEN Append(logs_q, c) ELSE logs_q
    /\ UNCHANGED <<config, stage, up, pass, todo, left, alive, tries, listening, logged,
                   trouble>>

LogResultKept ==
    /\ stage = "wait" /\ logs_q # <<>>
    /\ logged' = Append(logged, Head(logs_q))
    /\ logs_q' = logs_q
    /\ stage' = "check"
    /\ UNCHANGED <<config, up, pass, todo, left, alive, tries, listening, conns, trouble>>

LogResult ==
    /\ stage = "wait" /\ logs_q # <<>>
    /\ logged' = Append(logged, Head(logs_q))
    /\ logs_q' = Tail(logs_q)
    /\ stage' = "check"
    /\ UNCHANGED <<config, up, pass, todo, left, alive, tries, listening, conns, trouble>>

CheckQueueSwapped ==
    /\ stage = "check"
    /\ stage' = IF logs_q # <<>> THEN "done" ELSE "wait"
    /\ UNCHANGED <<config, up, pass, todo, left, alive, tries, listening, conns,
                   logs_q, logged, trouble>>

(* The process ends here, and every other thread with it.                  *)
CheckQueue ==
    /\ stage = "check"
    /\ stage' = IF logs_q = <<>> THEN "done" ELSE "wait"
    /\ UNCHANGED <<config, up, pass, todo, left, alive, tries, listening, conns,
                   logs_q, logged, trouble>>

MainStep == StartServers \/ Halt \/ PowerOn \/ Ping \/ EndPass \/ LogResult \/ CheckQueue

Next ==
    \/ MainStep
    \/ \E a \in Machines : Running /\ Boot(a)
    \/ \E a \in Addresses : RunTest(a) \/ FailTest(a)
    \/ \E c \in conns : ReadMessage(c)

Spec == Init /\ [][Next]_vars

(* Each thread of the process is scheduled.                                *)
FairSpec ==
    /\ Spec
    /\ WF_vars(MainStep)
    /\ \A a \in Addresses : WF_vars(RunTest(a) \/ FailTest(a))
    /\ WF_vars(\E c \in conns : ReadMessage(c))

-----------------------------------------------------------------------------
Results == [from : Addresses, run : 1 .. Attempts, whole : BOOLEAN, passed : SUBSET Tests]

(* The report of a machine says that all is well, but for the memory, when *)
(* it has what const.py asks for; the memory is always too small, as it is *)
(* measured in GB and compared with KB (no machine has 16 million GB).     *)
VerdictRight(c) ==
    /\ c.from \in Sound <=> c.passed = Tests \ {"memory"}
    /\ "memory" \notin c.passed

(* Every variable has the type the code gives it: server.py, receiver.py   *)
(* and the main loop of pharos-validator-server.                           *)
TypeOK ==
    /\ config \in Config
    /\ stage \in {"dhcp", "power", "ping", "wait", "check", "done", "halted"}
    /\ up \subseteq Addresses
    /\ pass \in 0 .. Passes
    /\ todo \in Seq(Addresses) /\ left \in Seq(Addresses) /\ alive \in Seq(Addresses)
    /\ tries \in [Addresses -> 0 .. Attempts]
    /\ listening \in BOOLEAN
    /\ conns \subseteq Results
    /\ logs_q \in Seq(Results) /\ logged \in Seq(Results)
    /\ trouble \in 0 .. MaxTrouble

(* What a configuration means numerically, for the ones whose text order   *)
(* is the order of the addresses.                                          *)
Plain(c) ==
    /\ ~c.spaced
    /\ Len(Digits(c.first)) = Len(Digits(c.second))
    /\ Installer \notin {c.first, c.second}

(* ping_network finds each address once, never the server's own, and never *)
(* more addresses than the inventory has nodes; with an empty inventory it *)
(* still pings one.  Ends of equal length, without a space and not the     *)
(* server's address, bound what it finds, in whichever order they stand.   *)
PingedAsAsked ==
    /\ Len(alive) <= config.nodes \/ Len(alive) <= 1
    /\ IsInjective(alive)
    /\ Installer \notin ToSet(alive)
    /\ Plain(config) =>
          \A a \in ToSet(alive) :
              /\ config.first <= a \/ config.second <= a
              /\ a <= config.first \/ a <= config.second

(* The results the server has, which run a result is of, and that the      *)
(* server made that run on a machine it found.                             *)
Received == logged \o logs_q
Run(c) == <<c.from, c.run>>
Sent(c) ==
    /\ c.from \in ToSet(alive) \cap (Machines \ Broken)
    /\ c.run > tries[c.from]
    /\ VerdictRight(c)

(* What is sent, queued or logged is the result of a run the server made   *)
(* on a machine it found, and right about it, each run's at most once,     *)
(* however the reader threads and the main thread interleave.              *)
ResultsOfRuns ==
    /\ \A i, j \in DOMAIN Received : i # j => Run(Received[i]) # Run(Received[j])
    /\ \A c \in ToSet(Received) \cup conns : Sent(c)
    /\ conns \cap ToSet(Received) = {}

(* All runs are over and not one result has come.                          *)
Starved ==
    /\ stage = "wait" /\ logged = <<>> /\ logs_q = <<>> /\ conns = {}
    /\ \A a \in Addresses : tries[a] = 0

(* The server halts, or finishes its test, unless no result ever comes:    *)
(* one result is enough, whichever thread delivers it and when, and then   *)
(* logs_q.get() never blocks for ever.                                     *)
ServerEnds == <>(stage \in {"done", "halted"} \/ Starved)

-----------------------------------------------------------------------------
(* The inductive invariant behind PingedAsAsked and ResultsOfRuns.         *)

Usable(c) == ToSet(gen_ip_range(c))

(* An address of the range is still to be found or has been, not both; the *)
(* main thread goes on only while it has not found enough.                 *)
InvPing ==
    /\ stage \in {"dhcp", "power"} => alive = <<>> /\ left = <<>> /\ todo = <<>>
    /\ IsInjective(left) /\ IsInjective(todo) /\ IsInjective(alive)
    /\ ToSet(todo) \subseteq ToSet(left)
    /\ ToSet(alive) \cap ToSet(left) = {}
    /\ ToSet(alive) \cup ToSet(left) \subseteq Usable(config)
    /\ stage = "ping" /\ todo # <<>> => Len(alive) < config.nodes \/ Len(alive) = 0
    /\ Len(alive) <= config.nodes \/ Len(alive) <= 1

(* Each run of the test has one result, in a connection, in the queue or   *)
(* in the log.                                                             *)
InvRuns ==
    /\ stage \in {"dhcp", "power", "ping", "halted"} =>
          conns = {} /\ Received = <<>> /\ \A a \in Addresses : tries[a] = 0
    /\ \A a \in Addresses : tries[a] > 0 => a \in ToSet(alive)
    /\ \A c \in conns : Sent(c)
    /\ \A i \in DOMAIN Received : Sent(Received[i])
    /\ \A i, j \in DOMAIN Received : i # j => Run(Received[i]) # Run(Received[j])
    /\ \A c \in conns : \A i \in DOMAIN Received : Run(c) # Run(Received[i])
    /\ \A c, d \in conns : c # d => Run(c) # Run(d)

IInv ==
    /\ TypeOK
    /\ InvPing
    /\ InvRuns
=============================================================================
