-------------------------------- MODULE Ahci --------------------------------
(***************************************************************************)
(* The AHCI driver, drivers/disk/ahci/ahci.cpp, against the ports of the   *)
(* controllers that enumerate_pci finds.  initialize finds the ports with  *)
(* a drive, keeps an ahci_port on the heap for each, stops the engine, sets*)
(* up its memory and starts it; then commands are issued, one at a time.   *)
(* The device moves on its own between any two steps of the driver.        *)
(***************************************************************************)
EXTENDS Heap

CONSTANTS
  Machines,           \* sequences of controllers, each a function from its
                      \* implemented ports to what is attached and left there
  PageUnits,          \* 256-byte units in a page: 16
  Slots,              \* command slots: 32, twice PageUnits
  PortCount,          \* ports a controller can have: 32
  MaxCommands         \* bound: commands issued

\* Whatever the firmware, or a drive, has left in a port: the engines on, off or on
\* their way, an error, a busy drive, and commands issued unless ST is off, which
\* clears them.  Where the firmware's lists are does not matter.
FirmwarePorts ==
  {p \in [st : BOOLEAN, fre : BOOLEAN, cr : BOOLEAN, fr : BOOLEAN, list : {0}, fis : {0},
          tables : {0}, gap : {1}, ci : SUBSET (0 .. Slots - 1), tfes : BOOLEAN, busy : BOOLEAN] :
     p.ci # {} => p.st}

ASSUME AhciAssumption ==
  /\ PageUnits \in Nat \ {0} /\ PageUnits % 4 = 0 /\ Slots = 2 * PageUnits
  /\ PortCount \in Nat /\ MaxCommands \in Nat
  /\ \A m \in Machines :     \* initialize is called for a controller, and PI has PortCount bits
       /\ Len(m) \in Nat \ {0} /\ DOMAIN m = 1 .. Len(m)
       /\ \A c \in DOMAIN m : /\ DOMAIN m[c] \subseteq 0 .. PortCount - 1
                              /\ \A p \in DOMAIN m[c] : m[c][p].left \in FirmwarePorts

VARIABLES
  machine,            \* the controllers and drives of this machine
  hba,                \* the registers of every port
  ports, usable_ports,
  controller, i,      \* initialize: which controller, and the loop counter
  pc,                 \* where the driver is, port_at the port it works on
  port_at,
  slot,               \* command_list_slot
  result,             \* what the last command returned
  pages,              \* the first page request_page has not given out
  commands,           \* commands issued so far
  failed              \* the slots of each port whose command failed; it stops then

ahciVars == <<machine, hba, ports, usable_ports, controller, i, pc, port_at, slot,
              result, pages, commands, failed>>
vars == <<mem, ahciVars>>

Hw == UNION {{<<c, p>> : p \in DOMAIN machine[c]} : c \in DOMAIN machine}

\* A port of the controller in memory: an address far above the heap.
PortAddress(h) == heap_end + 128 * (h[1] * PortCount + h[2])
PortAt(a) == CHOOSE h \in Hw : PortAddress(h) = a

Init ==
  /\ HeapInit
  /\ machine \in Machines
  /\ hba = [h \in Hw |-> machine[h[1]][h[2]].left]
  /\ ports = <<>> /\ usable_ports = 0 /\ controller = 1 /\ i = 0
  /\ pc = "probe" /\ port_at = 0 /\ slot = 0 /\ result = "none"
  /\ pages = 1 /\ commands = 0
  /\ failed = [h \in Hw |-> {}]

-----------------------------------------------------------------------------
(* The device.                                                             *)

Device(h, changes) == hba' = [hba EXCEPT ![h] = changes]

DeviceOnly == UNCHANGED <<mem, machine, ports, usable_ports, controller, i, pc, port_at,
                          slot, result, pages, commands>>

\* The engines follow ST and FRE in their own time.
EngineFollows(h) ==
  /\ h \in Hw
  /\ \/ hba[h].cr # hba[h].st /\ Device(h, [hba[h] EXCEPT !.cr = hba[h].st])
     \/ hba[h].fr # hba[h].fre /\ Device(h, [hba[h] EXCEPT !.fr = hba[h].fre])
  /\ DeviceOnly /\ UNCHANGED failed

Works(h) == h \in Hw /\ hba[h].cr /\ hba[h].fr /\ failed[h] = {}

Completes(h) ==
  /\ Works(h)
  /\ \E s \in hba[h].ci : Device(h, [hba[h] EXCEPT !.ci = @ \ {s}, !.busy = FALSE])
  /\ DeviceOnly /\ UNCHANGED failed

\* An error stops the engine with the command still issued, until ST is cleared.
Fails(h) ==
  /\ Works(h)
  /\ \E s \in hba[h].ci :
       /\ Device(h, [hba[h] EXCEPT !.tfes = TRUE, !.busy = FALSE])
       /\ failed' = [failed EXCEPT ![h] = {s}]
  /\ DeviceOnly

\* BSY and DRQ come and go while the engine runs.
Busies(h) ==
  /\ Works(h)
  /\ Device(h, [hba[h] EXCEPT !.busy = ~@])
  /\ DeviceOnly /\ UNCHANGED failed

DeviceStep == \E h \in Hw : EngineFollows(h) \/ Completes(h) \/ Fails(h) \/ Busies(h)

-----------------------------------------------------------------------------
(* initialize: probe_ports, then configure_port for every usable port.     *)

Goto(label) == pc' = label

PortType(drive) ==
  CASE drive.detection # "present" -> "none"
    [] drive.ipm # "active" -> "none"
    [] drive.signature \in {"sata", "semb", "sata_pi", "pm"} -> drive.signature
    [] OTHER -> "none"

HasDrive(p) ==
  /\ p \in DOMAIN machine[controller]
  /\ PortType(machine[controller][p]) # "none"

\* Slip: ports are numbered from 1.
ObjectFromOne(m, a, h, number) ==
  [m EXCEPT ![Length(a)] = PortAddress(h), ![Free(a)] = number + 1]

\* The stores of probe_ports into the object malloc returned.  It starts at the
\* segment header: port lies over length, ahci_port_number over free.
Object(m, a, h, number) == [m EXCEPT ![Length(a)] = PortAddress(h), ![Free(a)] = number]

\* One iteration of probe_ports.
Probe ==
  /\ pc = "probe" /\ i < PortCount
  /\ i' = i + 1
  /\ IF HasDrive(i)
     THEN LET a == Chosen(mem, Rounded(HeaderSize)) IN
          /\ mem' = Object(Malloc(mem, HeaderSize), a, <<controller, i>>, usable_ports)
          /\ ports' = Append(ports, a)
          /\ usable_ports' = usable_ports + 1
     ELSE UNCHANGED <<mem, ports, usable_ports>>
  /\ UNCHANGED <<machine, hba, controller, pc, port_at, slot, result, pages, commands, failed>>

\* ports[n]->port
PortOf(n) == PortAt(mem[Length(ports[n + 1])])

Driver(h, changes) == hba' = [hba EXCEPT ![h] = changes]

\* A step of the driver on the port it works on.
At(label, to) ==
  /\ pc = label /\ Goto(to)
  /\ UNCHANGED <<mem, machine, ports, usable_ports, controller, port_at, failed>>

\* The end of probe_ports, and of one configure_port.
NextPort ==
  /\ \/ pc = "probe" /\ i = PortCount /\ i' = 0
     \/ pc = "configured" /\ i' = i + 1
  /\ IF i' < usable_ports
     THEN Goto("stop") /\ port_at' = i' /\ controller' = controller
     ELSE IF controller < Len(machine)
     THEN Goto("probe_next") /\ controller' = controller + 1 /\ port_at' = 0
     ELSE Goto("idle") /\ controller' = controller /\ port_at' = 0
  /\ UNCHANGED <<mem, machine, hba, ports, usable_ports, slot, result, pages, commands, failed>>

\* initialize again, for the next controller.
NextController ==
  /\ At("probe_next", "probe")
  /\ i' = 0
  /\ UNCHANGED <<hba, slot, result, pages, commands>>

Configuring == UNCHANGED <<i, slot, result, commands>>

\* command_stop: FRE, then ST.
ClearFre ==
  /\ At("stop", "stop_st")
  /\ Driver(PortOf(port_at), [hba[PortOf(port_at)] EXCEPT !.fre = FALSE])
  /\ UNCHANGED pages /\ Configuring

\* With ST the device clears what is issued, and forgets that a command failed.
ClearSt ==
  /\ pc = "stop_st" /\ Goto("stop_wait")
  /\ Driver(PortOf(port_at), [hba[PortOf(port_at)] EXCEPT !.st = FALSE, !.ci = {}])
  /\ failed' = [failed EXCEPT ![PortOf(port_at)] = {}]
  /\ UNCHANGED <<mem, machine, ports, usable_ports, controller, port_at, pages>> /\ Configuring

\* Slip: only the receive engine is waited for.
StopWaitReceiveOnly ==
  /\ At("stop_wait", IF hba[PortOf(port_at)].fr THEN "stop_wait" ELSE "set_up")
  /\ UNCHANGED <<hba, pages>> /\ Configuring

\* The loop reads the register twice, FR first.
StopWait ==
  /\ At("stop_wait", IF hba[PortOf(port_at)].fr THEN "stop_wait" ELSE "stop_wait_cr")
  /\ UNCHANGED <<hba, pages>> /\ Configuring

StopWaitCr ==
  /\ At("stop_wait_cr", IF hba[PortOf(port_at)].cr THEN "stop_wait" ELSE "set_up")
  /\ UNCHANGED <<hba, pages>> /\ Configuring

\* Slip: the list and the received FIS in the same page.
SetUpShared ==
  /\ At("set_up", "start")
  /\ \E gap \in {1, 2} :
       /\ Driver(PortOf(port_at), [hba[PortOf(port_at)] EXCEPT
                   !.list = pages, !.fis = pages, !.tables = pages + gap, !.gap = gap])
       /\ pages' = pages + (1 + Slots) * gap
  /\ Configuring

\* The pages of a port: one for the list, one for the received FIS, and one for
\* the command table of each slot, in ascending order, perhaps with others between.
SetUp ==
  /\ At("set_up", "start")
  /\ \E gap \in {1, 2} :
       /\ Driver(PortOf(port_at), [hba[PortOf(port_at)] EXCEPT
                   !.list = pages, !.fis = pages + gap, !.tables = pages + 2 * gap, !.gap = gap])
       /\ pages' = pages + (2 + Slots) * gap
  /\ Configuring

\* Slip: the wait is for the engine to run.
StartWaitForRunning ==
  /\ At("start", IF hba[PortOf(port_at)].cr THEN "start_fre" ELSE "start")
  /\ UNCHANGED <<hba, pages>> /\ Configuring

\* command_start.
StartWait ==
  /\ At("start", IF hba[PortOf(port_at)].cr THEN "start" ELSE "start_fre")
  /\ UNCHANGED <<hba, pages>> /\ Configuring

SetFre ==
  /\ At("start_fre", "start_st")
  /\ Driver(PortOf(port_at), [hba[PortOf(port_at)] EXCEPT !.fre = TRUE])
  /\ UNCHANGED pages /\ Configuring

SetSt ==
  /\ At("start_st", "configured")
  /\ Driver(PortOf(port_at), [hba[PortOf(port_at)] EXCEPT !.st = TRUE])
  /\ UNCHANGED pages /\ Configuring

Configure ==
  \/ Probe \/ NextPort \/ NextController
  \/ ClearFre \/ ClearSt \/ StopWait \/ StopWaitCr \/ SetUp \/ StartWait \/ SetFre \/ SetSt

-----------------------------------------------------------------------------
(* command_read and command_write: they differ in the command byte only.   *)

MinOf(S) == CHOOSE s \in S : \A t \in S : s <= t

\* Slip: only sata_active is looked at, which these commands do not set.
FirstSlot(h) == 0

\* $find_command_slot, where there is one.
FindCommandSlot(h) == MinOf((0 .. Slots - 1) \ hba[h].ci)

Here == PortOf(port_at)
Issuing == UNCHANGED <<i, pages>>

Command(n) ==
  /\ pc = "idle" /\ commands < MaxCommands /\ n \in 0 .. usable_ports - 1
  /\ port_at' = n /\ commands' = commands + 1
  /\ IF hba[PortOf(n)].ci = 0 .. Slots - 1
     THEN result' = "device_too_busy" /\ Goto("idle") /\ UNCHANGED slot
     ELSE result' = "none" /\ Goto("clear_status") /\ slot' = FindCommandSlot(PortOf(n))
  /\ UNCHANGED <<mem, machine, hba, ports, usable_ports, controller, i, pages, failed>>

\* interrupt_status = -1
ClearInterruptStatus ==
  /\ At("clear_status", "fill")
  /\ Driver(Here, [hba[Here] EXCEPT !.tfes = FALSE])
  /\ UNCHANGED <<slot, result, commands>> /\ Issuing

\* The header and the table of the slot are cleared and filled in.
Fill ==
  /\ At("fill", "spin")
  /\ UNCHANGED <<hba, slot, result, commands>> /\ Issuing

\* The loop on BSY and DRQ, with a limit.
Spin ==
  /\ pc = "spin" /\ ~hba[Here].busy /\ At("spin", "issue")
  /\ UNCHANGED <<hba, slot, result, commands>> /\ Issuing

SpinEnds ==
  /\ pc = "spin" /\ hba[Here].busy /\ At("spin", "idle")
  /\ result' = "device_hung"
  /\ UNCHANGED <<hba, slot, commands>> /\ Issuing

Issue ==
  /\ At("issue", "poll")
  /\ Driver(Here, [hba[Here] EXCEPT !.ci = @ \cup {slot}])
  /\ UNCHANGED <<slot, result, commands>> /\ Issuing

\* The loop that waits has no limit.
PollIssue ==
  /\ At("poll", IF slot \in hba[Here].ci THEN "poll_status" ELSE "idle")
  /\ result' = IF slot \in hba[Here].ci THEN result ELSE "success"
  /\ UNCHANGED <<hba, slot, commands>> /\ Issuing

\* Slip: the error is noted, and the wait goes on.
PollStatusOnly ==
  /\ At("poll_status", "poll")
  /\ result' = IF hba[Here].tfes THEN "task_file_error" ELSE result
  /\ UNCHANGED <<hba, slot, commands>> /\ Issuing

PollStatus ==
  /\ At("poll_status", IF hba[Here].tfes THEN "idle" ELSE "poll")
  /\ result' = IF hba[Here].tfes THEN "task_file_error" ELSE result
  /\ UNCHANGED <<hba, slot, commands>> /\ Issuing

CommandStep ==
  \/ ClearInterruptStatus \/ Fill \/ Spin \/ SpinEnds \/ Issue \/ PollIssue \/ PollStatus

DriverStep == Configure \/ CommandStep

Next == DeviceStep \/ DriverStep \/ (\E n \in 0 .. PortCount - 1 : Command(n))

\* The driver runs on; the engines of every port follow, and complete commands.
Spec ==
  /\ Init /\ [][Next]_vars
  /\ WF_vars(DriverStep)
  /\ \A h \in {<<c, p>> : c \in 1 .. 2, p \in 0 .. PortCount - 1} :
       WF_vars(EngineFollows(h)) /\ WF_vars(Completes(h))

-----------------------------------------------------------------------------
Drives(c) == {<<c, p>> : p \in {q \in DOMAIN machine[c] : PortType(machine[c][q]) # "none"}}

\* While there are at most two usable ports, each has an object of its own, and
\* the objects name exactly the ports with a drive probed so far.  (ahci_port
\* lies over the segment header, so the object of port 1 marks its own segment
\* free, and a third malloc returns it again.)
PortsKept ==
  usable_ports <= 2 =>
    /\ Cardinality({ports[n] : n \in DOMAIN ports}) = usable_ports
    /\ {mem[Length(ports[n])] : n \in DOMAIN ports} =
         {PortAddress(h) : h \in
            {d \in UNION {Drives(c) : c \in 1 .. controller} :
               d[1] = controller =>
                 pc # "probe_next" /\ (pc = "probe" => d[2] < i)}}

\* The memory of a port is set up only while both its engines are at rest, also
\* when the firmware left them running or another controller is initialised.
SetUpAtRest ==
  [][\A h \in Hw : hba'[h].list # hba[h].list => ~hba[h].cr /\ ~hba[h].fr]_vars

\* What a configured port makes the device use: no two structures, of any ports,
\* share a unit of memory.
Units(h) ==
  [list |-> {hba[h].list * PageUnits + u : u \in 0 .. (PageUnits \div 4) - 1},
   fis |-> {hba[h].fis * PageUnits},
   tables |-> {(hba[h].tables + s * hba[h].gap) * PageUnits + s : s \in 0 .. Slots - 1}]
SetUps == {h \in Hw : hba[h].list # 0}
StructuresApart ==
  \A h, g \in SetUps : \A f, k \in {"list", "fis", "tables"} :
    <<h, f>> # <<g, k>> => Units(h)[f] \cap Units(g)[k] = {}

\* The table the driver fills is not one the device may be reading: its slot is
\* not issued, although a failed command stays issued for ever.
TableIsFree == pc \in {"fill", "spin", "issue"} => slot \notin hba[Here].ci

\* initialize returns, whatever the firmware left running.
InitializeReturns == <>(pc = "idle")

\* A command that was issued returns, also when it fails, unless one failed on
\* its port before it (the driver does not restart the engine of that port).
CommandReturns ==
  (pc = "poll" /\ failed[Here] \subseteq {slot}) ~> (pc = "idle")
=============================================================================
