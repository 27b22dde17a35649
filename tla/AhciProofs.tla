----------------------------- MODULE AhciProofs -----------------------------
(***************************************************************************)
(* Proofs about Ahci, for every machine and every state the firmware may   *)
(* leave its ports in.                                                     *)
(***************************************************************************)
EXTENDS Ahci, FiniteSetTheorems, WellFoundedInduction, TLAPS

Fields == {"st", "fre", "cr", "fr", "list", "fis", "tables", "gap", "ci", "tfes", "busy"}

RegistersTyped ==
  /\ DOMAIN hba = Hw /\ hba = [h \in Hw |-> hba[h]]
  /\ \A h \in Hw :
       /\ DOMAIN hba[h] = Fields /\ hba[h] = [f \in Fields |-> hba[h][f]]
       /\ hba[h].st \in BOOLEAN /\ hba[h].fre \in BOOLEAN
       /\ hba[h].cr \in BOOLEAN /\ hba[h].fr \in BOOLEAN

\* What command_stop has achieved when the driver is at a label: an engine that is
\* told to stop may still run, but one seen at rest stays at rest, since only the
\* driver tells it to run.
StopSoFar(label, port) ==
  /\ label \in {"stop_st", "stop_wait", "stop_wait_cr", "set_up"} => ~port.fre
  /\ label \in {"stop_wait", "stop_wait_cr", "set_up"} => ~port.st
  /\ label \in {"stop_wait_cr", "set_up"} => ~port.fr
  /\ label = "set_up" => ~port.cr

IInv == RegistersTyped /\ (Here \in Hw => StopSoFar(pc, hba[Here]))

-----------------------------------------------------------------------------
\* The registers are as the firmware leaves them.
LEMMA LeftByFirmware ==
  ASSUME Init
  PROVE  hba \in [Hw -> FirmwarePorts]
<1>1. \A h \in Hw : machine[h[1]][h[2]].left \in FirmwarePorts
  <2>1. \A c \in DOMAIN machine : \A p \in DOMAIN machine[c] : machine[c][p].left \in FirmwarePorts
    BY AhciAssumption DEF Init
  <2> SUFFICES ASSUME NEW c \in DOMAIN machine, NEW p \in DOMAIN machine[c], NEW h, h = <<c, p>>
               PROVE  machine[h[1]][h[2]].left \in FirmwarePorts
    BY DEF Hw
  <2> QED
    BY <2>1
<1>2. hba = [h \in Hw |-> machine[h[1]][h[2]].left]
  BY DEF Init
<1> QED
  BY <1>1, <1>2

\* They are those of a port.
LEMMA Initial == Init => IInv
<1> SUFFICES ASSUME Init PROVE IInv
  OBVIOUS
<1>1. hba \in [Hw -> FirmwarePorts] /\ pc = "probe"
  BY LeftByFirmware DEF Init
<1>2. ASSUME NEW r \in FirmwarePorts
      PROVE  /\ DOMAIN r = Fields /\ r = [f \in Fields |-> r[f]]
             /\ r.st \in BOOLEAN /\ r.fre \in BOOLEAN /\ r.cr \in BOOLEAN /\ r.fr \in BOOLEAN
  BY <1>2 DEF FirmwarePorts, Fields
<1>3. RegistersTyped
  BY <1>1, <1>2 DEF RegistersTyped
<1> QED
  BY <1>1, <1>3 DEF IInv, StopSoFar

\* The port the driver works on is the same while it works on it.
LEMMA SamePort ==
  ASSUME UNCHANGED <<mem, machine, ports, port_at>>
  PROVE  Here' = Here /\ Hw' = Hw
<1>1. Hw' = Hw
  BY DEF Hw
<1>2. \A a : PortAt(a)' = PortAt(a)
  BY <1>1 DEF PortAt, PortAddress, heap_end
<1> QED
  BY <1>1, <1>2 DEF Here, PortOf, Length

\* What the device does to a port: engines only follow the bits the driver set,
\* the memory it was given stays, and no command is issued.
ByDevice(r, to) ==
  /\ to.st = r.st /\ to.fre = r.fre
  /\ to.list = r.list /\ to.fis = r.fis /\ to.tables = r.tables /\ to.gap = r.gap
  /\ to.cr \in {r.cr, r.st} /\ to.fr \in {r.fr, r.fre}
  /\ to.ci \subseteq r.ci

\* Every step of the device is of that kind, for every port.
LEMMA DeviceMoves ==
  ASSUME IInv, DeviceStep
  PROVE  /\ UNCHANGED <<mem, machine, ports, port_at, pc>>
         /\ RegistersTyped'
         /\ \A g \in Hw : ByDevice(hba[g], hba'[g])
<1>1. UNCHANGED <<mem, machine, ports, port_at, pc>>
  BY DEF DeviceStep, EngineFollows, Completes, Fails, Busies, DeviceOnly
<1>2. Hw' = Hw
  BY <1>1, SamePort
<1>3. PICK h \in Hw : EngineFollows(h) \/ Completes(h) \/ Fails(h) \/ Busies(h)
  BY DEF DeviceStep
<1>4. RegistersTyped
  BY DEF IInv
<1>5. \/ hba' = [hba EXCEPT ![h] = [hba[h] EXCEPT !.cr = hba[h].st]]
      \/ hba' = [hba EXCEPT ![h] = [hba[h] EXCEPT !.fr = hba[h].fre]]
      \/ \E s : hba' = [hba EXCEPT ![h] = [hba[h] EXCEPT !.ci = @ \ {s}, !.busy = FALSE]]
      \/ hba' = [hba EXCEPT ![h] = [hba[h] EXCEPT !.tfes = TRUE, !.busy = FALSE]]
      \/ hba' = [hba EXCEPT ![h] = [hba[h] EXCEPT !.busy = ~@]]
  BY <1>3 DEF EngineFollows, Completes, Fails, Busies, Device
<1>6. \E r : /\ hba' = [hba EXCEPT ![h] = r]
             /\ DOMAIN r = Fields /\ r = [f \in Fields |-> r[f]]
             /\ ByDevice(hba[h], r)
  <2>1. DOMAIN hba[h] = Fields /\ hba[h] = [f \in Fields |-> hba[h][f]]
    BY <1>4 DEF RegistersTyped
  <2> DEFINE Same(r) == /\ DOMAIN r = Fields /\ r = [f \in Fields |-> r[f]]
                        /\ ByDevice(hba[h], r)
  <2>2. CASE hba' = [hba EXCEPT ![h] = [hba[h] EXCEPT !.cr = hba[h].st]]
    <3>1. Same([hba[h] EXCEPT !.cr = hba[h].st])
      BY <2>1 DEF Fields, ByDevice
    <3> QED
      BY <2>2, <3>1
  <2>3. CASE hba' = [hba EXCEPT ![h] = [hba[h] EXCEPT !.fr = hba[h].fre]]
    <3>1. Same([hba[h] EXCEPT !.fr = hba[h].fre])
      BY <2>1 DEF Fields, ByDevice
    <3> QED
      BY <2>3, <3>1
  <2>4. CASE \E s : hba' = [hba EXCEPT ![h] = [hba[h] EXCEPT !.ci = @ \ {s}, !.busy = FALSE]]
    <3>1. PICK s : hba' = [hba EXCEPT ![h] = [hba[h] EXCEPT !.ci = @ \ {s}, !.busy = FALSE]]
      BY <2>4
    <3>2. Same([hba[h] EXCEPT !.ci = @ \ {s}, !.busy = FALSE])
      BY <2>1 DEF Fields, ByDevice
    <3> QED
      BY <3>1, <3>2
  <2>5. CASE hba' = [hba EXCEPT ![h] = [hba[h] EXCEPT !.tfes = TRUE, !.busy = FALSE]]
    <3>1. Same([hba[h] EXCEPT !.tfes = TRUE, !.busy = FALSE])
      BY <2>1 DEF Fields, ByDevice
    <3> QED
      BY <2>5, <3>1
  <2>6. CASE hba' = [hba EXCEPT ![h] = [hba[h] EXCEPT !.busy = ~@]]
    <3>1. Same([hba[h] EXCEPT !.busy = ~@])
      BY <2>1 DEF Fields, ByDevice
    <3> QED
      BY <2>6, <3>1
  <2> QED
    BY <1>5, <2>2, <2>3, <2>4, <2>5, <2>6
<1>7. /\ hba' = [g \in Hw |-> hba'[g]] /\ DOMAIN hba' = Hw
      /\ \A g \in Hw \ {h} : hba'[g] = hba[g]
      /\ DOMAIN hba'[h] = Fields /\ hba'[h] = [f \in Fields |-> hba'[h][f]]
      /\ ByDevice(hba[h], hba'[h])
  BY <1>4, <1>6 DEF RegistersTyped
<1>8. \A g \in Hw : ByDevice(hba[g], hba'[g])
  BY <1>7 DEF ByDevice
<1>9. RegistersTyped'
  BY <1>2, <1>4, <1>7, <1>8 DEF RegistersTyped, ByDevice
<1> QED
  BY <1>1, <1>8, <1>9

\* So nothing the device does starts an engine that is told to stop, or moves its memory.
LEMMA DeviceKeeps == IInv /\ DeviceStep => IInv' /\ \A h \in Hw : hba'[h].list = hba[h].list
<1> SUFFICES ASSUME IInv, DeviceStep
             PROVE  IInv' /\ \A h \in Hw : hba'[h].list = hba[h].list
  OBVIOUS
<1>1. Here' = Here /\ Hw' = Hw /\ pc' = pc
  BY DeviceMoves, SamePort
<1>2. ASSUME Here \in Hw PROVE StopSoFar(pc, hba[Here])'
  BY <1>1, <1>2, DeviceMoves DEF StopSoFar, IInv, RegistersTyped, ByDevice
<1> QED
  BY <1>1, <1>2, DeviceMoves DEF IInv, ByDevice

-----------------------------------------------------------------------------
(* The driver.                                                             *)

Stopping == {"stop_st", "stop_wait", "stop_wait_cr", "set_up"}

\* A register the driver writes is one of the port it works on.
LEMMA DriverWrites ==
  ASSUME RegistersTyped, UNCHANGED <<mem, machine, ports, port_at>>,
         NEW r, hba' = [hba EXCEPT ![Here] = r],
         Here \in Hw => /\ DOMAIN r = Fields /\ r = [f \in Fields |-> r[f]]
                        /\ r.st \in BOOLEAN /\ r.fre \in BOOLEAN /\ r.cr \in BOOLEAN /\ r.fr \in BOOLEAN
  PROVE  /\ RegistersTyped' /\ Here' = Here /\ Hw' = Hw
         /\ Here \in Hw => hba'[Here] = r
         /\ \A g \in Hw \ {Here} : hba'[g] = hba[g]
<1>1. Here' = Here /\ Hw' = Hw
  BY SamePort
<1>2. CASE Here \in Hw
  <2>1. /\ DOMAIN hba' = Hw /\ hba' = [g \in Hw |-> hba'[g]]
        /\ hba'[Here] = r /\ \A g \in Hw \ {Here} : hba'[g] = hba[g]
    BY <1>2 DEF RegistersTyped
  <2>2. RegistersTyped'
    BY <1>1, <1>2, <2>1 DEF RegistersTyped
  <2> QED
    BY <1>1, <1>2, <2>1, <2>2
<1>3. CASE Here \notin Hw
  <2>1. hba' = hba
    BY <1>3 DEF RegistersTyped
  <2> QED
    BY <1>1, <1>3, <2>1 DEF RegistersTyped
<1> QED
  BY <1>2, <1>3

\* A step that writes no register, and does not go on with command_stop.
LEMMA NoWriteKeeps ==
  ASSUME IInv, UNCHANGED <<hba, machine>>, pc' \notin Stopping
  PROVE  IInv' /\ \A h \in Hw : hba'[h].list = hba[h].list
<1>1. Hw' = Hw /\ hba' = hba /\ RegistersTyped
  BY DEF Hw, IInv
<1>2. RegistersTyped'
  BY <1>1 DEF RegistersTyped
<1> QED
  BY <1>1, <1>2 DEF IInv, StopSoFar, Stopping

\* A step of command_stop or command_start, or of a command: the list stays, and
\* what is written keeps to what command_stop has achieved.
LEMMA WriteKeeps ==
  ASSUME IInv, UNCHANGED <<mem, machine, ports, port_at>>,
         NEW r, hba' = [hba EXCEPT ![Here] = r],
         Here \in Hw => /\ DOMAIN r = Fields /\ r = [f \in Fields |-> r[f]]
                        /\ r.st \in BOOLEAN /\ r.fre \in BOOLEAN /\ r.cr \in BOOLEAN /\ r.fr \in BOOLEAN
                        /\ r.list = hba[Here].list
                        /\ pc' \in Stopping => StopSoFar(pc', r)
  PROVE  IInv' /\ \A h \in Hw : hba'[h].list = hba[h].list
<1>1. RegistersTyped
  BY DEF IInv
<1>2. /\ RegistersTyped' /\ Here' = Here /\ Hw' = Hw
      /\ Here \in Hw => hba'[Here] = r
      /\ \A g \in Hw \ {Here} : hba'[g] = hba[g]
  BY <1>1, DriverWrites
<1>3. ASSUME Here \in Hw PROVE StopSoFar(pc, hba[Here])'
  BY <1>2, <1>3 DEF StopSoFar, Stopping
<1>4. \A h \in Hw : hba'[h].list = hba[h].list
  BY <1>2
<1> QED
  BY <1>2, <1>3, <1>4 DEF IInv

\* The shape of the registers of the port worked on, for the steps that write them.
LEMMA PortTyped ==
  ASSUME IInv, Here \in Hw
  PROVE  /\ DOMAIN hba[Here] = Fields /\ hba[Here] = [f \in Fields |-> hba[Here][f]]
         /\ hba[Here].st \in BOOLEAN /\ hba[Here].fre \in BOOLEAN
         /\ hba[Here].cr \in BOOLEAN /\ hba[Here].fr \in BOOLEAN
         /\ StopSoFar(pc, hba[Here])
BY DEF IInv, RegistersTyped

\* command_stop: first the bits, then each engine is seen at rest.
LEMMA StopKeeps ==
  IInv /\ (ClearFre \/ ClearSt \/ StopWait \/ StopWaitCr)
    => IInv' /\ \A h \in Hw : hba'[h].list = hba[h].list
<1> SUFFICES ASSUME IInv, ClearFre \/ ClearSt \/ StopWait \/ StopWaitCr
             PROVE  IInv' /\ \A h \in Hw : hba'[h].list = hba[h].list
  OBVIOUS
<1>1. CASE ClearFre
  <2> DEFINE r == [hba[Here] EXCEPT !.fre = FALSE]
  <2>1. hba' = [hba EXCEPT ![Here] = r] /\ UNCHANGED <<mem, machine, ports, port_at>> /\ pc' = "stop_st"
    BY <1>1 DEF ClearFre, At, Goto, Driver, Here
  <2>2. ASSUME Here \in Hw
        PROVE  /\ DOMAIN r = Fields /\ r = [f \in Fields |-> r[f]]
               /\ r.st \in BOOLEAN /\ r.fre \in BOOLEAN /\ r.cr \in BOOLEAN /\ r.fr \in BOOLEAN
               /\ r.list = hba[Here].list /\ ~r.fre
    BY <2>2, PortTyped DEF Fields
  <2> HIDE DEF r
  <2>3. Here \in Hw => StopSoFar(pc', r)
    BY <2>1, <2>2 DEF StopSoFar
  <2> QED
    BY <2>1, <2>2, <2>3, WriteKeeps
<1>2. CASE ClearSt
  <2> DEFINE r == [hba[Here] EXCEPT !.st = FALSE, !.ci = {}]
  <2>1. /\ hba' = [hba EXCEPT ![Here] = r] /\ UNCHANGED <<mem, machine, ports, port_at>>
        /\ pc = "stop_st" /\ pc' = "stop_wait"
    BY <1>2 DEF ClearSt, Goto, Driver, Here
  <2>2. ASSUME Here \in Hw
        PROVE  /\ DOMAIN r = Fields /\ r = [f \in Fields |-> r[f]]
               /\ r.st \in BOOLEAN /\ r.fre \in BOOLEAN /\ r.cr \in BOOLEAN /\ r.fr \in BOOLEAN
               /\ r.list = hba[Here].list /\ ~r.st /\ r.fre = hba[Here].fre
    BY <2>2, PortTyped DEF Fields
  <2>3. Here \in Hw => ~hba[Here].fre
    BY <2>1, PortTyped DEF StopSoFar
  <2> HIDE DEF r
  <2>4. ASSUME Here \in Hw PROVE StopSoFar(pc', r)
    BY <2>1, <2>2, <2>3, <2>4 DEF StopSoFar
  <2> QED
    BY <2>1, <2>2, <2>4, WriteKeeps
<1>3. CASE StopWait \/ StopWaitCr
  <2>1. /\ UNCHANGED <<mem, machine, ports, port_at, hba>>
        /\ \/ pc = "stop_wait" /\ pc' = IF hba[Here].fr THEN "stop_wait" ELSE "stop_wait_cr"
           \/ pc = "stop_wait_cr" /\ pc' = IF hba[Here].cr THEN "stop_wait" ELSE "set_up"
    BY <1>3 DEF StopWait, StopWaitCr, At, Goto, Here
  <2>2. Here' = Here /\ Hw' = Hw
    BY <2>1, SamePort
  <2>3. ASSUME Here \in Hw PROVE StopSoFar(pc, hba[Here])'
    BY <2>1, <2>2, <2>3, PortTyped DEF StopSoFar
  <2>4. RegistersTyped'
    BY <2>1, <2>2 DEF IInv, RegistersTyped
  <2> QED
    BY <2>1, <2>2, <2>3, <2>4 DEF IInv
<1> QED
  BY <1>1, <1>2, <1>3

\* The memory of a port is set up with both engines at rest.
LEMMA SetUpKeeps ==
  IInv /\ SetUp
    => IInv' /\ \A h \in Hw : hba'[h].list # hba[h].list => ~hba[h].cr /\ ~hba[h].fr
<1> SUFFICES ASSUME IInv, SetUp
             PROVE  IInv' /\ \A h \in Hw : hba'[h].list # hba[h].list => ~hba[h].cr /\ ~hba[h].fr
  OBVIOUS
<1>1. PICK gap \in {1, 2} :
        hba' = [hba EXCEPT ![Here] = [hba[Here] EXCEPT
                  !.list = pages, !.fis = pages + gap, !.tables = pages + 2 * gap, !.gap = gap]]
  BY DEF SetUp, Driver, Here
<1> DEFINE r == [hba[Here] EXCEPT
                   !.list = pages, !.fis = pages + gap, !.tables = pages + 2 * gap, !.gap = gap]
<1>2. /\ hba' = [hba EXCEPT ![Here] = r] /\ UNCHANGED <<mem, machine, ports, port_at>>
      /\ pc = "set_up" /\ pc' = "start"
  BY <1>1 DEF SetUp, At, Goto
<1>3. ASSUME Here \in Hw
      PROVE  /\ DOMAIN r = Fields /\ r = [f \in Fields |-> r[f]]
             /\ r.st \in BOOLEAN /\ r.fre \in BOOLEAN /\ r.cr \in BOOLEAN /\ r.fr \in BOOLEAN
  BY <1>3, PortTyped DEF Fields
<1> HIDE DEF r
<1>4. RegistersTyped
  BY DEF IInv
<1>5. RegistersTyped' /\ \A g \in Hw \ {Here} : hba'[g] = hba[g]
  BY <1>2, <1>3, <1>4, DriverWrites
<1>6. Here \in Hw => ~hba[Here].cr /\ ~hba[Here].fr
  BY <1>2, PortTyped DEF StopSoFar
<1>7. \A port : StopSoFar(pc', port)
  BY <1>2 DEF StopSoFar
<1> QED
  BY <1>5, <1>6, <1>7 DEF IInv

\* command_start and the commands write bits of the port and keep its memory.
LEMMA WritesKeep ==
  IInv /\ (SetFre \/ SetSt \/ ClearInterruptStatus \/ Issue)
    => IInv' /\ \A h \in Hw : hba'[h].list = hba[h].list
<1> SUFFICES ASSUME IInv, SetFre \/ SetSt \/ ClearInterruptStatus \/ Issue
             PROVE  IInv' /\ \A h \in Hw : hba'[h].list = hba[h].list
  OBVIOUS
<1>1. UNCHANGED <<mem, machine, ports, port_at>> /\ pc' \notin Stopping
  BY DEF SetFre, SetSt, ClearInterruptStatus, Issue, At, Goto, Stopping
<1> DEFINE Engines(r) == /\ DOMAIN r = Fields /\ r = [f \in Fields |-> r[f]]
                         /\ r.st \in BOOLEAN /\ r.fre \in BOOLEAN /\ r.cr \in BOOLEAN /\ r.fr \in BOOLEAN
                         /\ r.list = hba[Here].list
<1>2. \E r : hba' = [hba EXCEPT ![Here] = r] /\ (Here \in Hw => Engines(r))
  <2>1. CASE SetFre
    <3>1. hba' = [hba EXCEPT ![Here] = [hba[Here] EXCEPT !.fre = TRUE]]
      BY <2>1 DEF SetFre, Driver, Here
    <3>2. Here \in Hw => Engines([hba[Here] EXCEPT !.fre = TRUE])
      BY PortTyped DEF Fields
    <3> QED
      BY <3>1, <3>2
  <2>2. CASE SetSt
    <3>1. hba' = [hba EXCEPT ![Here] = [hba[Here] EXCEPT !.st = TRUE]]
      BY <2>2 DEF SetSt, Driver, Here
    <3>2. Here \in Hw => Engines([hba[Here] EXCEPT !.st = TRUE])
      BY PortTyped DEF Fields
    <3> QED
      BY <3>1, <3>2
  <2>3. CASE ClearInterruptStatus
    <3>1. hba' = [hba EXCEPT ![Here] = [hba[Here] EXCEPT !.tfes = FALSE]]
      BY <2>3 DEF ClearInterruptStatus, Driver
    <3>2. Here \in Hw => Engines([hba[Here] EXCEPT !.tfes = FALSE])
      BY PortTyped DEF Fields
    <3> QED
      BY <3>1, <3>2
  <2>4. CASE Issue
    <3>1. hba' = [hba EXCEPT ![Here] = [hba[Here] EXCEPT !.ci = @ \cup {slot}]]
      BY <2>4 DEF Issue, Driver
    <3>2. Here \in Hw => Engines([hba[Here] EXCEPT !.ci = @ \cup {slot}])
      BY PortTyped DEF Fields
    <3> QED
      BY <3>1, <3>2
  <2> QED
    BY <2>1, <2>2, <2>3, <2>4
<1>3. PICK r : hba' = [hba EXCEPT ![Here] = r] /\ (Here \in Hw => Engines(r))
  BY <1>2
<1> QED
  BY <1>1, <1>3, WriteKeeps

\* The other steps write no register.
LEMMA OthersKeep ==
  IInv /\ \/ Probe \/ NextPort \/ NextController \/ StartWait
          \/ Fill \/ Spin \/ SpinEnds \/ PollIssue \/ PollStatus
          \/ \E n \in 0 .. PortCount - 1 : Command(n)
    => IInv' /\ \A h \in Hw : hba'[h].list = hba[h].list
<1> SUFFICES ASSUME IInv,
                    \/ Probe \/ NextPort \/ NextController \/ StartWait
                    \/ Fill \/ Spin \/ SpinEnds \/ PollIssue \/ PollStatus
                    \/ \E n \in 0 .. PortCount - 1 : Command(n)
             PROVE  IInv' /\ \A h \in Hw : hba'[h].list = hba[h].list
  OBVIOUS
<1>1. UNCHANGED <<hba, machine>> /\ pc' \notin Stopping
  BY DEF Probe, NextPort, NextController, StartWait, Fill, Spin, SpinEnds, PollIssue, PollStatus,
         Command, At, Goto, Stopping
<1> QED
  BY <1>1, NoWriteKeeps

\* Every step keeps the strengthening, and moves a list only with its engines at rest.
LEMMA Steps ==
  ASSUME IInv, [Next]_vars
  PROVE  /\ IInv'
         /\ \A h \in Hw : hba'[h].list # hba[h].list => ~hba[h].cr /\ ~hba[h].fr
<1>1. CASE UNCHANGED vars
  <2>1. UNCHANGED <<hba, mem, machine, ports, port_at, pc>>
    BY <1>1 DEF vars, ahciVars
  <2>2. Here' = Here /\ Hw' = Hw
    BY <2>1, SamePort
  <2> QED
    BY <2>1, <2>2 DEF IInv, RegistersTyped, StopSoFar
<1>2. CASE DeviceStep
  BY <1>2, DeviceKeeps
<1>3. CASE Configure
  BY <1>3, StopKeeps, SetUpKeeps, WritesKeep, OthersKeep DEF Configure
<1>4. CASE CommandStep
  BY <1>4, WritesKeep, OthersKeep DEF CommandStep
<1>5. CASE \E n \in 0 .. PortCount - 1 : Command(n)
  BY <1>5, OthersKeep
<1> QED
  BY <1>1, <1>2, <1>3, <1>4, <1>5 DEF Next, DriverStep

\* The strengthening holds of every reachable state.
THEOREM Invariance == Spec => []IInv
<1>1. IInv /\ [Next]_vars => IInv'
  BY Steps
<1> QED
  BY <1>1, Initial, PTL DEF Spec

\* configure_port gives the device new memory only while neither engine runs,
\* whatever the firmware left on and however late the engines follow.
THEOREM MovedAtRest == Spec => SetUpAtRest
<1>1. IInv /\ [Next]_vars =>
        [\A h \in Hw : hba'[h].list # hba[h].list => ~hba[h].cr /\ ~hba[h].fr]_vars
  BY Steps
<1> QED
  BY <1>1, Invariance, PTL DEF Spec, SetUpAtRest

-----------------------------------------------------------------------------
(* The heap under the objects.                                             *)

first == heap_start
second == heap_start + 2 * HeaderSize
third == heap_start + 4 * HeaderSize

\* A nonempty set of naturals has a least element.
LEMMA LeastNatural ==
  ASSUME NEW T, T \subseteq Nat, T # {}
  PROVE  \E x \in T : \A y \in T : x <= y
<1>1. PICK x \in T : \A y \in T : ~ (<<y, x>> \in OpToRel(<, Nat))
  BY WFMin, NatLessThanWellFounded
<1>2. \A y \in T : ~ (y < x)
  BY <1>1 DEF OpToRel
<1> QED
  BY <1>2

\* The words of a header that lies in the heap are words of the model.
LEMMA HeaderInWords ==
  ASSUME NEW a, InHeap(a)
  PROVE  /\ a \in Nat /\ a >= heap_start
         /\ Length(a) \in Words /\ NextOf(a) \in Words /\ LastOf(a) \in Words /\ Free(a) \in Words
<1>1. heap_end \in Nat /\ heap_end % 8 = 0 /\ heap_end = 8 * (heap_end \div 8)
  BY HeapAssumption DEF heap_end
<1> DEFINE k == heap_end \div 8
<1>2. k \in Nat /\ heap_end = 8 * k /\ Words = {8 * n : n \in 0 .. k - 1}
  BY <1>1 DEF Words
<1> HIDE DEF k
<1>3. PICK n \in 0 .. k - 1 : a = 8 * n
  BY <1>2 DEF InHeap
<1>4. n + 3 \in 0 .. k - 1
  BY <1>2, <1>3 DEF InHeap, HeaderSize
<1>5. a + 8 = 8 * (n + 1) /\ a + 16 = 8 * (n + 2) /\ a + 24 = 8 * (n + 3)
  BY <1>2, <1>3
<1>6. n + 1 \in 0 .. k - 1 /\ n + 2 \in 0 .. k - 1
  BY <1>2, <1>4
<1>7. a \in Nat /\ a >= heap_start /\ a \in Words
  BY <1>2, <1>3 DEF InHeap
<1>8. a + 8 \in Words /\ a + 16 \in Words /\ a + 24 \in Words
  BY <1>2, <1>4, <1>5, <1>6
<1> QED
  BY <1>7, <1>8 DEF Length, NextOf, LastOf, Free

\* The first segment lies in the heap, and NULL does not.
LEMMA FirstInHeap == InHeap(first) /\ ~InHeap(NULL) /\ heap_end \in Nat /\ heap_end > heap_start
<1>1. /\ heap_start \in Nat /\ heap_start >= 32 /\ heap_start % 8 = 0
      /\ HeapLength \in Nat /\ HeapLength % 8 = 0 /\ HeapLength >= 64
  BY HeapAssumption
<1>2. /\ heap_start = 8 * (heap_start \div 8) /\ heap_start \div 8 \in Nat
      /\ heap_start \div 8 <= heap_end \div 8 - 1 /\ heap_end \div 8 \in Nat
  BY <1>1 DEF heap_end
<1>3. heap_start \div 8 \in 0 .. heap_end \div 8 - 1
  BY <1>2
<1>4. heap_start \in Words
  BY <1>2, <1>3 DEF Words
<1> QED
  BY <1>1, <1>4 DEF InHeap, first, NULL, HeaderSize, heap_end

\* The words of low memory that a store through NULL changes.
LEMMA LowWords == 0 \in Words /\ 24 \in Words
<1>1. heap_end \in Nat /\ heap_end >= 96 /\ heap_end \div 8 \in Nat /\ heap_end \div 8 >= 12
  BY HeapAssumption DEF heap_end
<1>2. 0 \in 0 .. heap_end \div 8 - 1 /\ 3 \in 0 .. heap_end \div 8 - 1 /\ 0 = 8 * 0 /\ 24 = 8 * 3
  BY <1>1
<1> QED
  BY <1>2 DEF Words

Onward(m, a) == IF InHeap(a) THEN m[NextOf(a)] ELSE NULL

\* The walk of a list exists: what malloc's loop looks at, one segment after another.
LEMMA WalkUnfolds ==
  ASSUME NEW m
  PROVE  /\ Walk(m)[0] = heap_start
         /\ \A n \in 1 .. MaxSegments : Walk(m)[n] = Onward(m, Walk(m)[n - 1])
<1> DEFINE Goes(f, k) ==
             f = [n \in 0 .. k |-> IF n = 0 THEN heap_start
                                   ELSE IF InHeap(f[n - 1]) THEN m[NextOf(f[n - 1])] ELSE NULL]
           Lost == {k \in Nat : ~\E f : Goes(f, k)}
<1>1. Lost = {}
  <2> SUFFICES ASSUME Lost # {} PROVE FALSE
    OBVIOUS
  <2>1. PICK k \in Lost : \A l \in Lost : k <= l
    BY LeastNatural
  <2>2. k \in Nat /\ ~\E f : Goes(f, k)
    OBVIOUS
  <2>3. CASE k = 0
    <3> DEFINE f0 == [n \in 0 .. 0 |-> heap_start]
    <3>1. f0 = [n \in 0 .. 0 |-> IF n = 0 THEN heap_start
                                 ELSE IF InHeap(f0[n - 1]) THEN m[NextOf(f0[n - 1])] ELSE NULL]
      OBVIOUS
    <3> QED
      BY <2>2, <2>3, <3>1
  <2>4. CASE k # 0
    <3>1. k - 1 \in Nat /\ k - 1 \notin Lost
      BY <2>1, <2>2, <2>4
    <3>2. PICK f : Goes(f, k - 1)
      BY <3>1
    <3> DEFINE g == [n \in 0 .. k |-> IF n = 0 THEN heap_start
                                      ELSE IF InHeap(f[n - 1]) THEN m[NextOf(f[n - 1])] ELSE NULL]
    <3>3. \A n \in 0 .. k - 1 : g[n] = f[n]
      BY <2>2, <3>2
    <3>4. \A n \in 0 .. k : n # 0 => n - 1 \in 0 .. k - 1
      BY <2>2
    <3>5. Goes(g, k)
      <4>1. \A n \in 0 .. k : n # 0 => g[n - 1] = f[n - 1]
        BY <3>3, <3>4
      <4>2. g = [n \in 0 .. k |-> g[n]] /\ DOMAIN g = 0 .. k
        OBVIOUS
      <4>3. \A n \in 0 .. k : g[n] = IF n = 0 THEN heap_start
                                     ELSE IF InHeap(g[n - 1]) THEN m[NextOf(g[n - 1])] ELSE NULL
        BY <4>1
      <4> HIDE DEF g
      <4> QED
        BY <4>2, <4>3
    <3> QED
      BY <2>2, <3>5
  <2> QED
    BY <2>3, <2>4
<1>2. MaxSegments \in Nat
  BY HeapAssumption
<1>3. \E f : Goes(f, MaxSegments)
  BY <1>1, <1>2
<1>4. Goes(Walk(m), MaxSegments)
  BY <1>3 DEF Walk
<1>5. \A n \in 0 .. MaxSegments :
        Walk(m)[n] = IF n = 0 THEN heap_start
                     ELSE IF InHeap(Walk(m)[n - 1]) THEN m[NextOf(Walk(m)[n - 1])] ELSE NULL
  <2> DEFINE w == Walk(m)
  <2>1. w = [n \in 0 .. MaxSegments |-> IF n = 0 THEN heap_start
                   ELSE IF InHeap(w[n - 1]) THEN m[NextOf(w[n - 1])] ELSE NULL]
    BY <1>4
  <2> HIDE DEF w
  <2>2. \A n \in 0 .. MaxSegments : w[n] = IF n = 0 THEN heap_start
                   ELSE IF InHeap(w[n - 1]) THEN m[NextOf(w[n - 1])] ELSE NULL
    BY <2>1
  <2> QED
    BY <2>2 DEF w
<1>6. 0 \in 0 .. MaxSegments /\ \A n \in 1 .. MaxSegments : n \in 0 .. MaxSegments /\ n # 0
  BY <1>2
<1> QED
  BY <1>5, <1>6 DEF Onward

\* What malloc looks at in a list of one or two segments.
LEMMA WalkTwo ==
  ASSUME NEW m
  PROVE  /\ 0 \in 0 .. MaxSegments /\ Walk(m)[0] = first
         /\ 1 \in 0 .. MaxSegments /\ Walk(m)[1] = m[NextOf(first)]
<1>1. MaxSegments \in Nat \ {0}
  BY HeapAssumption
<1>2. 1 \in 1 .. MaxSegments /\ 1 - 1 = 0
  BY <1>1
<1>3. Walk(m)[0] = heap_start /\ Walk(m)[1] = Onward(m, Walk(m)[0])
  BY <1>2, WalkUnfolds
<1> QED
  BY <1>1, <1>3, FirstInHeap DEF Onward, first

\* The first segment is taken when it fits.
LEMMA ChosenFirst ==
  ASSUME NEW m, NEW size, Fits(m, first, size)
  PROVE  Chosen(m, size) = first
<1> DEFINE hits == {n \in 0 .. MaxSegments : Fits(m, Walk(m)[n], size)}
<1>1. 0 \in hits /\ \A n \in hits : 0 <= n /\ n \in Nat
  BY WalkTwo, HeapAssumption
<1>2. (CHOOSE n \in hits : \A k \in hits : n <= k) = 0
  <2> HIDE DEF hits
  <2>1. \A n \in hits : (\A k \in hits : n <= k) => n = 0
    BY <1>1
  <2> QED
    BY <1>1, <2>1
<1> QED
  BY <1>1, <1>2, WalkTwo DEF Chosen

\* When it does not, the segment after it is.
LEMMA ChosenNext ==
  ASSUME NEW m, NEW size, ~Fits(m, first, size), Fits(m, m[NextOf(first)], size)
  PROVE  Chosen(m, size) = m[NextOf(first)]
<1> DEFINE hits == {n \in 0 .. MaxSegments : Fits(m, Walk(m)[n], size)}
<1>1. 1 \in hits /\ 0 \notin hits /\ \A n \in hits : n \in Nat
  BY WalkTwo, HeapAssumption
<1>2. \A n \in hits : 1 <= n
  BY <1>1
<1>3. (CHOOSE n \in hits : \A k \in hits : n <= k) = 1
  <2> HIDE DEF hits
  <2>1. \A n \in hits : (\A k \in hits : n <= k) => n = 1
    BY <1>1, <1>2
  <2> QED
    BY <1>1, <1>2, <2>1
<1> QED
  BY <1>1, <1>3, WalkTwo DEF Chosen

\* When neither fits and the list ends there, malloc returns NULL.
LEMMA ChosenNone ==
  ASSUME NEW m, NEW size, ~Fits(m, first, size), ~Fits(m, m[NextOf(first)], size),
         InHeap(m[NextOf(first)]) => m[NextOf(m[NextOf(first)])] = NULL
  PROVE  Chosen(m, size) = NULL
<1> DEFINE Seen == {first, m[NextOf(first)], NULL}
           Odd == {n \in 0 .. MaxSegments : Walk(m)[n] \notin Seen}
<1>1. Odd = {}
  <2> SUFFICES ASSUME Odd # {} PROVE FALSE
    OBVIOUS
  <2>1. MaxSegments \in Nat
    BY HeapAssumption
  <2>2. Odd \subseteq Nat
    BY <2>1
  <2>3. PICK n \in Odd : \A k \in Odd : n <= k
    BY <2>2, LeastNatural
  <2>4. n \in 1 .. MaxSegments /\ n - 1 \in 0 .. MaxSegments /\ n - 1 \notin Odd
    BY <2>1, <2>2, <2>3, WalkTwo
  <2>5. Walk(m)[n - 1] \in Seen /\ Walk(m)[n] = Onward(m, Walk(m)[n - 1])
    BY <2>4, WalkUnfolds
  <2>6. \A a \in Seen : Onward(m, a) \in Seen
    BY FirstInHeap DEF Onward
  <2> QED
    BY <2>3, <2>5, <2>6
<1>2. ~Fits(m, NULL, size)
  BY FirstInHeap DEF Fits
<1>3. {n \in 0 .. MaxSegments : Fits(m, Walk(m)[n], size)} = {}
  BY <1>1, <1>2
<1> QED
  BY <1>3 DEF Chosen

\* What split writes when malloc needs room for one object.
LEMMA SplitWrites ==
  ASSUME NEW m, m = [w \in Words |-> m[w]], DOMAIN m = Words,
         NEW s \in Nat, NextOf(s) \in Words, NEW b \in Nat, m[NextOf(s)] = b,
         NEW r, r = Split(m, s, HeaderSize)
  PROVE  /\ DOMAIN r = Words /\ r = [w \in Words |-> r[w]]
         /\ \A w \in Words \ {LastOf(b), s, s + 8, s + 64, s + 72, s + 80, s + 88} : r[w] = m[w]
         /\ \/ r = m
            \/ r[NextOf(s)] = s + 64 /\ (s + 72 \in Words => r[s + 72] = b)
<1>1. CASE r = m
  BY <1>1
<1>2. CASE r # m
  <2> DEFINE l == SplitLength(m, s, HeaderSize)
             f == m[Free(s)]
  <2>1. r = [m EXCEPT ![b + 16] = s + 64, ![s + 72] = b, ![s + 8] = s + 64, ![s + 80] = s,
                      ![s + 64] = l, ![s + 88] = f, ![s] = HeaderSize]
    <3>1. s + HeaderSize + HeaderSize = s + 64 /\ HeaderSize = 32
          /\ s + 64 + 8 = s + 72 /\ s + 64 + 16 = s + 80 /\ s + 64 + 24 = s + 88
      BY DEF HeaderSize
    <3> DEFINE new == s + HeaderSize + HeaderSize
    <3>2. new = s + 64 /\ NextOf(new) = s + 72 /\ LastOf(new) = s + 80 /\ Length(new) = s + 64
          /\ Free(new) = s + 88 /\ NextOf(s) = s + 8 /\ Length(s) = s /\ LastOf(b) = b + 16
      BY <3>1 DEF NextOf, LastOf, Length, Free
    <3>3. r = [m EXCEPT ![LastOf(m[NextOf(s)])] = new, ![NextOf(new)] = m[NextOf(s)],
                        ![NextOf(s)] = new, ![LastOf(new)] = s, ![Length(new)] = l,
                        ![Free(new)] = f, ![Length(s)] = HeaderSize]
      BY <1>2 DEF Split
    <3> HIDE DEF l, f, new
    <3>4. r = [m EXCEPT ![LastOf(b)] = new, ![NextOf(new)] = b,
                        ![NextOf(s)] = new, ![LastOf(new)] = s, ![Length(new)] = l,
                        ![Free(new)] = f, ![Length(s)] = HeaderSize]
      BY <3>3
    <3> QED
      BY <3>2, <3>4
  <2> HIDE DEF l, f
  <2>2. DOMAIN r = Words /\ r = [w \in Words |-> r[w]]
    BY <2>1
  <2>3. \A w \in Words \ {b + 16, s, s + 8, s + 64, s + 72, s + 80, s + 88} : r[w] = m[w]
    BY <2>1
  <2>4. r[s + 8] = s + 64
    BY <2>1 DEF NextOf
  <2>5. s + 72 \in Words => r[s + 72] = b
    BY <2>1
  <2> QED
    BY <2>2, <2>3, <2>4, <2>5 DEF NextOf, LastOf
<1> QED
  BY <1>1, <1>2

\* What probe_ports writes at the address malloc returned: the object, and what
\* malloc wrote around it.
LEMMA ObjectWrites ==
  ASSUME NEW m, m = [w \in Words |-> m[w]], DOMAIN m = Words,
         NEW s \in Nat, InHeap(s), Chosen(m, HeaderSize) = s,
         NEW b \in Nat, m[NextOf(s)] = b,
         NEW h, NEW number, NEW r, r = Object(Malloc(m, HeaderSize), s, h, number)
  PROVE  /\ DOMAIN r = Words /\ r = [w \in Words |-> r[w]]
         /\ r[Length(s)] = PortAddress(h) /\ r[Free(s)] = number
         /\ \A w \in Words \ {LastOf(b), s, s + 8, s + 24, s + 64, s + 72, s + 80, s + 88} :
              r[w] = m[w]
         /\ \/ r[NextOf(s)] = b /\ (s + 72 \in Words \ {LastOf(b)} => r[s + 72] = m[s + 72])
            \/ r[NextOf(s)] = s + 64 /\ (s + 72 \in Words => r[s + 72] = b)
<1>1. /\ s \in Words /\ s + 8 \in Words /\ s + 24 \in Words /\ s # NULL
      /\ Rounded(HeaderSize) = HeaderSize /\ HeaderSize # 0
  BY HeaderInWords, FirstInHeap DEF Rounded, HeaderSize, Length, NextOf, Free
<1> DEFINE q == Split(m, s, HeaderSize)
           k == IF m[Length(s)] > HeaderSize THEN q ELSE m
<1>2. Malloc(m, HeaderSize) = [k EXCEPT ![Free(s)] = 0]
  BY <1>1 DEF Malloc
<1>3. /\ DOMAIN k = Words /\ k = [w \in Words |-> k[w]]
      /\ \A w \in Words \ {LastOf(b), s, s + 8, s + 64, s + 72, s + 80, s + 88} : k[w] = m[w]
      /\ \/ k = m
         \/ k[NextOf(s)] = s + 64 /\ (s + 72 \in Words => k[s + 72] = b)
  <2> DEFINE Written(x) ==
        /\ DOMAIN x = Words /\ x = [w \in Words |-> x[w]]
        /\ \A w \in Words \ {LastOf(b), s, s + 8, s + 64, s + 72, s + 80, s + 88} : x[w] = m[w]
        /\ \/ x = m
           \/ x[NextOf(s)] = s + 64 /\ (s + 72 \in Words => x[s + 72] = b)
  <2>1. Written(q)
    <3> HIDE DEF q
    <3>1. q = Split(m, s, HeaderSize)
      BY DEF q
    <3>2. NextOf(s) \in Words
      BY <1>1 DEF NextOf
    <3> QED
      BY <3>1, <3>2, SplitWrites
  <2>2. Written(m)
    OBVIOUS
  <2>3. k = q \/ k = m
    OBVIOUS
  <2> HIDE DEF Written, q, k
  <2>4. Written(k)
    BY <2>1, <2>2, <2>3
  <2> QED
    BY <2>4 DEF Written
<1> HIDE DEF k
<1>4. r = [[k EXCEPT ![s + 24] = 0] EXCEPT ![s] = PortAddress(h), ![s + 24] = number]
  BY <1>2 DEF Object, Length, Free
<1>5. DOMAIN r = Words /\ r = [w \in Words |-> r[w]]
  BY <1>3, <1>4
<1>6. r[s] = PortAddress(h) /\ r[s + 24] = number /\ \A w \in Words \ {s, s + 24} : r[w] = k[w]
  BY <1>1, <1>3, <1>4
<1>7. s + 8 \in Words \ {s, s + 24} /\ r[s + 8] = k[s + 8]
  BY <1>1, <1>6
<1>8. s + 72 \in Words => r[s + 72] = k[s + 72]
  BY <1>6
<1> QED
  BY <1>3, <1>5, <1>6, <1>7, <1>8 DEF Length, Free, NextOf

\* What the first object leaves of the heap: first taken, and after it second, when
\* there was enough left to split off; then every later object goes to second,
\* which its own number marks free, and otherwise through NULL.
LinkedIn(m) == m[NextOf(first)] = second /\ InHeap(second)
RoomIn(m) == LinkedIn(m) /\ Fits(m, second, HeaderSize)
Others(m) == IF RoomIn(m) THEN second ELSE NULL

HeapShape(m) ==
  /\ DOMAIN m = Words /\ m = [w \in Words |-> m[w]]
  /\ m[Free(first)] = 0 /\ m[NextOf(first)] \in {NULL, second}
  /\ LinkedIn(m) => m[NextOf(second)] \in IF RoomIn(m) THEN {NULL, third} ELSE {NULL}

Untouched == [[w \in Words |-> 0] EXCEPT ![Length(heap_start)] = HeapLength - HeaderSize,
                                         ![Free(heap_start)] = 1]

\* The addresses the proofs speak of.
LEMMA Addresses ==
  /\ first \in Nat /\ first >= 32 /\ second = first + 64 /\ third = first + 128
  /\ first \in Words /\ first + 8 \in Words /\ first + 24 \in Words
  /\ InHeap(second) =>
       second \in Words /\ second + 8 \in Words /\ second + 16 \in Words /\ second + 24 \in Words
<1>1. heap_start \in Nat /\ heap_start >= 32
  BY HeapAssumption
<1>2. first \in Words /\ first + 8 \in Words /\ first + 24 \in Words
  BY FirstInHeap, HeaderInWords DEF Length, NextOf, Free
<1>3. InHeap(second) =>
       second \in Words /\ second + 8 \in Words /\ second + 16 \in Words /\ second + 24 \in Words
  BY HeaderInWords DEF Length, NextOf, Free, LastOf
<1> QED
  BY <1>1, <1>2, <1>3 DEF first, second, third, HeaderSize

\* The first object takes the segment at the start of the heap.
LEMMA FirstObject ==
  ASSUME NEW h, NEW m, m = Untouched, NEW r, r = Object(Malloc(m, HeaderSize), first, h, 0)
  PROVE  Chosen(m, HeaderSize) = first /\ HeapShape(r) /\ r[Length(first)] = PortAddress(h)
<1>1. DOMAIN m = Words /\ m = [w \in Words |-> m[w]]
  BY DEF Untouched
<1>2. /\ m[first] = HeapLength - HeaderSize /\ m[first + 24] = 1 /\ m[first + 8] = 0
      /\ \A w \in Words \ {first, first + 24} : m[w] = 0
  BY Addresses DEF Untouched, Length, Free, first
<1>3. m[Length(first)] >= HeaderSize
  BY <1>2, HeapAssumption DEF Length, HeaderSize
<1>4. Fits(m, first, HeaderSize)
  BY <1>2, <1>3, FirstInHeap DEF Fits, IsFree, Free
<1>5. Chosen(m, HeaderSize) = first
  BY <1>4, ChosenFirst
<1>6. m[NextOf(first)] = 0 /\ first \in Nat
  BY <1>2, Addresses DEF NextOf
<1>7. /\ DOMAIN r = Words /\ r = [w \in Words |-> r[w]]
      /\ r[Length(first)] = PortAddress(h) /\ r[Free(first)] = 0
      /\ \/ r[NextOf(first)] = 0
         \/ r[NextOf(first)] = first + 64 /\ (first + 72 \in Words => r[first + 72] = 0)
  BY <1>1, <1>5, <1>6, FirstInHeap, ObjectWrites
<1>8. r[NextOf(first)] \in {NULL, second}
  BY <1>7, Addresses DEF NULL
<1>9. ASSUME LinkedIn(r) PROVE r[NextOf(second)] = NULL
  <2>1. r[NextOf(first)] = first + 64 /\ first + 72 \in Words
    BY <1>9, Addresses DEF LinkedIn
  <2>2. r[NextOf(first)] # 0
    BY <2>1, Addresses
  <2> QED
    BY <1>7, <2>1, <2>2, Addresses DEF NextOf, NULL
<1> QED
  BY <1>5, <1>7, <1>8, <1>9 DEF HeapShape

\* A later object goes to second, or through NULL.
LEMMA LaterObject ==
  ASSUME NEW h, NEW m, HeapShape(m), NEW number \in Nat \ {0},
         PortAddress(h) >= HeaderSize,
         NEW a, a = Chosen(m, HeaderSize),
         NEW r, r = Object(Malloc(m, HeaderSize), a, h, number)
  PROVE  /\ a = Others(m) /\ Others(r) = Others(m) /\ HeapShape(r)
         /\ r[Length(a)] = PortAddress(h) /\ r[Length(first)] = m[Length(first)]
<1>1. /\ DOMAIN m = Words /\ m = [w \in Words |-> m[w]]
      /\ m[first + 24] = 0 /\ m[first + 8] \in {NULL, second} /\ ~Fits(m, first, HeaderSize)
  BY DEF HeapShape, Free, NextOf, Fits, IsFree
<1>2. CASE RoomIn(m)
  <2>1. a = second /\ Others(m) = second /\ InHeap(second) /\ m[first + 8] = second
    BY <1>1, <1>2, ChosenNext DEF RoomIn, LinkedIn, Others, NextOf
  <2> DEFINE b == m[NextOf(second)]
  <2>2. b \in {NULL, third} /\ b \in Nat /\ second \in Nat
    BY <1>2, Addresses DEF HeapShape, RoomIn, NULL
  <2>3. \/ b + 16 = 16
        \/ b + 16 = first + 144
    BY <2>2, Addresses DEF NULL
  <2> HIDE DEF b
  <2>4. /\ DOMAIN r = Words /\ r = [w \in Words |-> r[w]]
        /\ r[Length(second)] = PortAddress(h) /\ r[Free(second)] = number
        /\ \A w \in Words \ {LastOf(b), second, second + 8, second + 24,
                             second + 64, second + 72, second + 80, second + 88} : r[w] = m[w]
        /\ r[NextOf(second)] = b \/ r[NextOf(second)] = second + 64
    <3>1. m[NextOf(second)] = b
      BY DEF b
    <3>2. Chosen(m, HeaderSize) = second /\ r = Object(Malloc(m, HeaderSize), second, h, number)
      BY <2>1
    <3>3. m = [w \in Words |-> m[w]] /\ DOMAIN m = Words
      BY <1>1
    <3> QED
      BY <2>1, <2>2, <3>1, <3>2, <3>3, ObjectWrites
  <2>5. r[first] = m[first] /\ r[first + 8] = m[first + 8] /\ r[first + 24] = m[first + 24]
    BY <2>3, <2>4, Addresses DEF LastOf
  <2>6. r[NextOf(second)] \in {NULL, third}
    BY <2>2, <2>4, Addresses
  <2>7. RoomIn(r)
    BY <2>1, <2>4, <2>5 DEF RoomIn, LinkedIn, Fits, IsFree, NextOf
  <2>8. HeapShape(r)
    BY <1>1, <2>4, <2>5, <2>6, <2>7 DEF HeapShape, NextOf, Free
  <2> QED
    BY <2>1, <2>4, <2>5, <2>7, <2>8 DEF Others, Length
<1>3. CASE ~RoomIn(m)
  <2>1. ~Fits(m, m[NextOf(first)], HeaderSize)
    BY <1>1, <1>3, FirstInHeap DEF RoomIn, LinkedIn, Fits, NextOf
  <2>2. InHeap(m[NextOf(first)]) => m[NextOf(m[NextOf(first)])] = NULL
    BY <1>1, <1>3, FirstInHeap DEF HeapShape, LinkedIn, NextOf
  <2>3. a = NULL /\ Others(m) = NULL
    BY <1>1, <1>3, <2>1, <2>2, ChosenNone DEF Others
  <2>4. Malloc(m, HeaderSize) = m
    BY <2>3 DEF Malloc, Rounded, HeaderSize
  <2>5. r = [m EXCEPT ![0] = PortAddress(h), ![24] = number]
    BY <2>3, <2>4 DEF Object, Length, Free, NULL
  <2>6. /\ DOMAIN r = Words /\ r = [w \in Words |-> r[w]]
        /\ r[0] = PortAddress(h) /\ \A w \in Words \ {0, 24} : r[w] = m[w]
    <3> DEFINE at == PortAddress(h)
    <3> HIDE DEF at
    <3>1. r = [m EXCEPT ![0] = at, ![24] = number]
      BY <2>5 DEF at
    <3>2. DOMAIN r = Words /\ r = [w \in Words |-> r[w]]
      BY <1>1, <3>1
    <3>3. 0 \in DOMAIN m /\ 0 # 24
      BY <1>1, LowWords
    <3>4. r[0] = at
      BY <3>1, <3>3
    <3>5. \A w \in Words \ {0, 24} : r[w] = m[w]
      BY <1>1, <3>1
    <3> QED
      BY <3>2, <3>4, <3>5 DEF at
  <2>7. r[first] = m[first] /\ r[first + 8] = m[first + 8] /\ r[first + 24] = m[first + 24]
    BY <2>6, Addresses
  <2>8. InHeap(second) => /\ r[second] = m[second] /\ r[second + 8] = m[second + 8]
                          /\ r[second + 24] = m[second + 24]
    BY <2>6, Addresses
  <2>9. LinkedIn(r) = LinkedIn(m) /\ RoomIn(r) = RoomIn(m)
    BY <2>7, <2>8 DEF LinkedIn, RoomIn, Fits, IsFree, Length, NextOf, Free
  <2>10. HeapShape(r)
    BY <1>1, <1>3, <2>6, <2>7, <2>8, <2>9 DEF HeapShape, NextOf, Free, LinkedIn
  <2> QED
    BY <1>3, <2>3, <2>6, <2>7, <2>9, <2>10 DEF Others, Length, NULL
<1> QED
  BY <1>2, <1>3

-----------------------------------------------------------------------------
(* The objects of the ports.                                               *)

\* The labels at which the driver works on the port of an object.
Working == {"stop", "stop_st", "stop_wait", "stop_wait_cr", "set_up", "start", "start_fre",
            "start_st", "configured", "clear_status", "fill", "spin", "issue", "poll", "poll_status"}

\* The ports with a drive that probe_ports has come to.
Probed == {d \in UNION {Drives(c) : c \in 1 .. controller} :
             d[1] = controller => pc # "probe_next" /\ (pc = "probe" => d[2] < i)}

PortAddresses == {PortAddress(h) : h \in Hw}

Progress ==
  /\ machine \in Machines /\ controller \in 1 .. Len(machine)
  /\ i \in Nat /\ (pc = "probe" => i <= PortCount)
  /\ pc \in Working => port_at \in 0 .. usable_ports - 1

Held ==
  /\ usable_ports \in Nat /\ ports \in Seq(Nat) /\ Len(ports) = usable_ports
  /\ usable_ports = 0 => mem = Untouched
  /\ usable_ports > 0 => HeapShape(mem) /\ ports[1] = first
  /\ \A n \in 2 .. usable_ports : ports[n] = Others(mem)
  /\ \A n \in 1 .. usable_ports : mem[Length(ports[n])] \in PortAddresses

Named ==
  usable_ports <= 2 =>
    {mem[Length(ports[n])] : n \in DOMAIN ports} = {PortAddress(h) : h \in Probed}

ObjectsInv == Progress /\ Held /\ Named

\* The ports of a machine, and their addresses.
LEMMA Machine ==
  ASSUME Progress
  PROVE  /\ controller \in DOMAIN machine /\ controller \in Nat /\ PortCount \in Nat
         /\ \A c \in DOMAIN machine : c \in Nat /\ DOMAIN machine[c] \subseteq 0 .. PortCount - 1
         /\ DOMAIN machine = 1 .. Len(machine) /\ Len(machine) \in Nat
         /\ \A c \in DOMAIN machine : \A p \in DOMAIN machine[c] :
              <<c, p>> \in Hw /\ PortAddress(<<c, p>>) >= HeaderSize
<1>1. /\ Len(machine) \in Nat /\ DOMAIN machine = 1 .. Len(machine) /\ PortCount \in Nat
      /\ \A c \in DOMAIN machine : DOMAIN machine[c] \subseteq 0 .. PortCount - 1
  BY AhciAssumption DEF Progress
<1>2. controller \in DOMAIN machine /\ controller \in Nat /\ \A c \in DOMAIN machine : c \in Nat
  BY <1>1 DEF Progress
<1>3. ASSUME NEW c \in DOMAIN machine, NEW p \in DOMAIN machine[c]
      PROVE  <<c, p>> \in Hw /\ PortAddress(<<c, p>>) >= HeaderSize
  <2>1. c \in Nat /\ p \in Nat /\ c * PortCount \in Nat
    BY <1>1, <1>2
  <2> DEFINE q == c * PortCount
  <2>2. PortAddress(<<c, p>>) = heap_end + 128 * (q + p) /\ q \in Nat
    BY <2>1 DEF PortAddress
  <2> HIDE DEF q
  <2>3. heap_end \in Nat /\ heap_end >= 32
    BY HeapAssumption DEF heap_end
  <2>4. <<c, p>> \in Hw
    BY DEF Hw
  <2> QED
    BY <2>1, <2>2, <2>3, <2>4 DEF HeaderSize
<1> QED
  BY <1>1, <1>2, <1>3

\* What it is to have been probed.
LEMMA ProbedIs ==
  ASSUME NEW d
  PROVE  d \in Probed <=>
           \E c \in 1 .. controller : \E p \in DOMAIN machine[c] :
             /\ d = <<c, p>> /\ PortType(machine[c][p]) # "none"
             /\ c = controller => pc # "probe_next" /\ (pc = "probe" => p < i)
<1>1. d \in UNION {Drives(c) : c \in 1 .. controller} <=>
        \E c \in 1 .. controller : \E p \in DOMAIN machine[c] :
          d = <<c, p>> /\ PortType(machine[c][p]) # "none"
  BY DEF Drives
<1> QED
  BY <1>1 DEF Probed

\* The port an object names exists.
LEMMA PortExists ==
  ASSUME ObjectsInv, NEW n \in 0 .. usable_ports - 1
  PROVE  PortOf(n) \in Hw
<1>1. n + 1 \in 1 .. usable_ports
  BY DEF ObjectsInv, Held
<1>2. PICK h \in Hw : mem[Length(ports[n + 1])] = PortAddress(h)
  BY <1>1 DEF ObjectsInv, Held, PortAddresses
<1>3. PortAt(PortAddress(h)) \in Hw
  BY DEF PortAt
<1> QED
  BY <1>2, <1>3 DEF PortOf

\* So the port the driver works on exists.
LEMMA HereIsPort == ObjectsInv /\ pc \in Working => Here \in Hw
BY PortExists DEF Here, ObjectsInv, Progress

\* The heap and the objects before any port is probed.
LEMMA ObjectsInitial == Init => ObjectsInv
<1> SUFFICES ASSUME Init PROVE ObjectsInv
  OBVIOUS
<1>1. /\ mem = Untouched /\ machine \in Machines /\ ports = <<>> /\ usable_ports = 0
      /\ controller = 1 /\ i = 0 /\ pc = "probe"
  BY DEF Init, HeapInit, Untouched
<1>2. Progress
  BY <1>1, AhciAssumption DEF Progress, Working
<1>3. Held
  BY <1>1 DEF Held
<1>4. Probed = {}
  <2>1. \A d : d \notin Probed
    BY <1>1, <1>2, ProbedIs, Machine
  <2> QED
    BY <2>1
<1>5. Named
  BY <1>1, <1>4 DEF Named
<1> QED
  BY <1>2, <1>3, <1>5 DEF ObjectsInv

\* A step that leaves the heap, the objects and the ports probed alone.
LEMMA ObjectsStay ==
  ASSUME ObjectsInv, UNCHANGED <<mem, machine, ports, usable_ports>>, Probed' = Probed,
         controller' \in 1 .. Len(machine), i' \in Nat, pc' = "probe" => i' <= PortCount,
         pc' \in Working => port_at' \in 0 .. usable_ports - 1
  PROVE  ObjectsInv'
<1>1. Hw' = Hw
  BY DEF Hw
<1>2. PortAddresses' = PortAddresses
  BY <1>1 DEF PortAddresses, PortAddress, heap_end
<1>3. Progress'
  BY DEF ObjectsInv, Progress
<1>4. Held'
  <2>1. Length(first)' = Length(first) /\ HeapShape(mem)' = HeapShape(mem)
        /\ Others(mem)' = Others(mem)
    BY DEF HeapShape, Others, RoomIn, LinkedIn, Fits, IsFree
  <2> QED
    BY <1>2, <2>1 DEF ObjectsInv, Held, Length
<1>5. Named'
  <2>1. {PortAddress(h) : h \in Probed}' = {PortAddress(h) : h \in Probed}
    BY DEF PortAddress, heap_end
  <2>2. {mem[Length(ports[n])] : n \in DOMAIN ports}' = {mem[Length(ports[n])] : n \in DOMAIN ports}
    BY DEF Length
  <2> QED
    BY <2>1, <2>2 DEF ObjectsInv, Named
<1> QED
  BY <1>3, <1>4, <1>5 DEF ObjectsInv

\* Probing port i adds it to the ports probed when it has a drive.
LEMMA ProbeAdds ==
  ASSUME ObjectsInv, Probe
  PROVE  /\ HasDrive(i) => /\ <<controller, i>> \in Hw /\ PortAddress(<<controller, i>>) >= HeaderSize
                           /\ Probed' = Probed \cup {<<controller, i>>}
         /\ ~HasDrive(i) => Probed' = Probed
<1>1. Progress
  BY DEF ObjectsInv
<1>2. /\ pc = "probe" /\ pc' = "probe" /\ i' = i + 1 /\ i \in Nat /\ UNCHANGED <<machine, controller>>
  BY <1>1 DEF Probe, Progress
<1>3. HasDrive(i) => <<controller, i>> \in Hw /\ PortAddress(<<controller, i>>) >= HeaderSize
  BY <1>1, Machine DEF HasDrive
<1> DEFINE DriveBefore(c, p, n) == p \in DOMAIN machine[c] /\ PortType(machine[c][p]) # "none" /\ (c = controller => p < n)
<1>4. \A d : d \in Probed <=> \E c \in 1 .. controller : \E p \in DOMAIN machine[c] : d = <<c, p>> /\ DriveBefore(c, p, i)
  BY <1>2, ProbedIs
<1>5. \A d : d \in Probed' <=> \E c \in 1 .. controller : \E p \in DOMAIN machine[c] : d = <<c, p>> /\ DriveBefore(c, p, i + 1)
  <2> SUFFICES ASSUME NEW d
               PROVE d \in Probed' <=> \E c \in 1 .. controller : \E p \in DOMAIN machine[c] :
                                          d = <<c, p>> /\ DriveBefore(c, p, i + 1)
    OBVIOUS
  <2>1. (d \in Probed)' <=>
          (\E c \in 1 .. controller : \E p \in DOMAIN machine[c] :
             /\ d = <<c, p>> /\ PortType(machine[c][p]) # "none"
             /\ c = controller => pc # "probe_next" /\ (pc = "probe" => p < i))'
    <3>1. d \in Probed <=>
           \E c \in 1 .. controller : \E p \in DOMAIN machine[c] :
             /\ d = <<c, p>> /\ PortType(machine[c][p]) # "none"
             /\ c = controller => pc # "probe_next" /\ (pc = "probe" => p < i)
      BY ProbedIs
    <3> QED
      BY ProbedIs, PTL
  <2> QED
    BY <1>2, <2>1 DEF PortType
<1>6. CASE HasDrive(i)
  <2>1. i \in DOMAIN machine[controller] /\ PortType(machine[controller][i]) # "none"
    BY <1>6 DEF HasDrive
  <2>2. controller \in 1 .. controller
    BY <1>1, Machine DEF Progress
  <2>3. \A c \in 1 .. controller : \A p \in DOMAIN machine[c] : p \in Nat
    BY <1>1, Machine DEF Progress
  <2>4. \A c \in 1 .. controller : \A p \in DOMAIN machine[c] :
          DriveBefore(c, p, i + 1) <=> DriveBefore(c, p, i) \/ (c = controller /\ p = i)
    BY <1>2, <2>1, <2>3
  <2> HIDE DEF DriveBefore
  <2>5. \A d : d \in Probed' <=> d \in Probed \/ d = <<controller, i>>
    BY <1>4, <1>5, <2>1, <2>2, <2>4
  <2> QED
    BY <1>3, <1>6, <2>5
<1>7. CASE ~HasDrive(i)
  <2>1. \A c \in 1 .. controller : \A p \in DOMAIN machine[c] : p \in Nat
    BY <1>1, Machine DEF Progress
  <2>2. \A c \in 1 .. controller : \A p \in DOMAIN machine[c] :
          DriveBefore(c, p, i + 1) <=> DriveBefore(c, p, i)
    BY <1>2, <1>7, <2>1 DEF HasDrive
  <2> HIDE DEF DriveBefore
  <2>3. \A d : d \in Probed' <=> d \in Probed
    BY <1>4, <1>5, <2>2
  <2> QED
    BY <1>7, <2>3
<1> QED
  BY <1>6, <1>7

\* The object of a port with a drive: each of the first two ports gets one of its own.
LEMMA ObjectsProbe == ObjectsInv /\ Probe => ObjectsInv'
<1> SUFFICES ASSUME ObjectsInv, Probe PROVE ObjectsInv'
  OBVIOUS
<1>1. Progress /\ Held /\ Named
  BY DEF ObjectsInv
<1>2. /\ pc = "probe" /\ pc' = "probe" /\ i' = i + 1 /\ i' \in Nat /\ i' <= PortCount
      /\ UNCHANGED <<machine, controller>>
  BY <1>1, Machine DEF Probe, Progress
<1>3. CASE ~HasDrive(i)
  <2>1. UNCHANGED <<mem, ports, usable_ports>>
    BY <1>3 DEF Probe
  <2>2. Probed' = Probed /\ controller' \in 1 .. Len(machine)
    BY <1>1, <1>2, <1>3, ProbeAdds DEF Progress
  <2> QED
    BY <1>2, <2>1, <2>2, ObjectsStay DEF Working
<1>4. CASE HasDrive(i)
  <2> DEFINE h == <<controller, i>>
             a == Chosen(mem, HeaderSize)
             p == PortAddress(h)
  <2>1. /\ mem' = Object(Malloc(mem, HeaderSize), a, h, usable_ports)
        /\ ports' = Append(ports, a) /\ usable_ports' = usable_ports + 1
    <3>1. Rounded(HeaderSize) = HeaderSize
      BY DEF Rounded, HeaderSize
    <3> QED
      BY <1>4, <3>1 DEF Probe
  <2>2. h \in Hw /\ p >= HeaderSize /\ Probed' = Probed \cup {h}
    BY <1>4, ProbeAdds
  <2>3. Hw' = Hw /\ (\A g : PortAddress(g)' = PortAddress(g)) /\ PortAddresses' = PortAddresses
    BY <1>2 DEF Hw, PortAddress, heap_end, PortAddresses
  <2>4. p \in PortAddresses
    BY <2>2 DEF PortAddresses
  <2>5. {PortAddress(g) : g \in Probed}' = {PortAddress(g) : g \in Probed} \cup {p}
    BY <2>2, <2>3
  <2> HIDE DEF h, p
  <2>6. Progress'
    BY <1>1, <1>2 DEF Progress, Working
  <2>7. CASE usable_ports = 0
    <3>1. a = first /\ HeapShape(mem') /\ mem'[Length(first)] = p
      BY <1>1, <2>1, <2>7, FirstObject DEF Held, p
    <3>2. ports' = <<first>> /\ usable_ports' = 1
      BY <1>1, <2>1, <2>7, <3>1 DEF Held
    <3>3. Held'
      BY <2>3, <2>4, <3>1, <3>2, Addresses DEF Held, HeapShape, LinkedIn, RoomIn, Others, Length
    <3>4. {mem[Length(ports[n])] : n \in DOMAIN ports} = {}
      BY <1>1, <2>7 DEF Held
    <3>5. {PortAddress(g) : g \in Probed} = {}
      BY <1>1, <2>7, <3>4 DEF Named
    <3>6. {mem[Length(ports[n])] : n \in DOMAIN ports}' = {p}
      BY <3>1, <3>2 DEF Length
    <3>7. Named'
      BY <2>5, <3>5, <3>6 DEF Named
    <3> QED
      BY <2>6, <3>3, <3>7 DEF ObjectsInv
  <2>8. CASE usable_ports # 0
    <3>1. usable_ports \in Nat \ {0} /\ HeapShape(mem) /\ ports[1] = first /\ Len(ports) = usable_ports
      BY <1>1, <2>8 DEF Held
    <3>2. /\ a = Others(mem) /\ Others(mem') = Others(mem) /\ HeapShape(mem')
          /\ mem'[Length(a)] = p /\ mem'[Length(first)] = mem[Length(first)]
      <4> HIDE DEF a
      <4>1. a = Chosen(mem, HeaderSize) /\ PortAddress(h) = p
        BY DEF a, p
      <4> QED
        BY <2>1, <2>2, <3>1, <4>1, LaterObject
    <3> HIDE DEF a
    <3>3. a \in Nat
      BY <3>2, Addresses DEF Others, NULL
    <3>4. /\ ports' \in Seq(Nat) /\ Len(ports') = usable_ports' /\ usable_ports' \in Nat
          /\ ports'[usable_ports + 1] = a
          /\ \A n \in 1 .. usable_ports : ports'[n] = ports[n]
      BY <1>1, <2>1, <3>1, <3>3 DEF Held
    <3>5. \A n \in 2 .. usable_ports' : ports'[n] = a
      BY <1>1, <2>1, <3>1, <3>2, <3>4 DEF Held
    <3>6. ports'[1] = first
      BY <3>1, <3>4
    <3>7. \A n \in 1 .. usable_ports' : mem'[Length(ports'[n])] \in PortAddresses
      <4>1. mem[Length(ports[1])] \in PortAddresses
        BY <1>1, <3>1 DEF Held
      <4>2. \A n \in 1 .. usable_ports' : n = 1 \/ n \in 2 .. usable_ports'
        BY <3>4
      <4> QED
        BY <2>4, <3>1, <3>2, <3>5, <3>6, <4>1, <4>2
    <3>8. HeapShape(mem)' = HeapShape(mem') /\ Others(mem)' = Others(mem')
      BY DEF HeapShape, Others, RoomIn, LinkedIn, Fits, IsFree
    <3>9. Held'
      <4>1. usable_ports' # 0
        BY <2>1, <3>1
      <4>2. \A n \in 1 .. usable_ports' : (mem[Length(ports[n])] \in PortAddresses)'
        BY <2>3, <3>7 DEF Length
      <4> QED
        BY <3>2, <3>4, <3>5, <3>6, <3>8, <4>1, <4>2 DEF Held
    <3>10. Named'
      <4> SUFFICES ASSUME usable_ports' <= 2
                   PROVE {mem[Length(ports[n])] : n \in DOMAIN ports}' = {PortAddress(g) : g \in Probed}'
        BY DEF Named
      <4>1. usable_ports = 1 /\ usable_ports' = 2
        BY <2>1, <3>1
      <4>2. DOMAIN ports = {1} /\ DOMAIN ports' = {1, 2}
        BY <1>1, <3>4, <4>1 DEF Held
      <4>3. {mem[Length(ports[n])] : n \in DOMAIN ports} = {mem[Length(first)]}
        BY <3>1, <4>2
      <4>4. {mem[Length(ports[n])] : n \in DOMAIN ports}' = {mem'[Length(first)], p}
        BY <3>2, <3>4, <3>6, <4>1, <4>2 DEF Length
      <4> QED
        BY <1>1, <2>5, <3>2, <4>1, <4>3, <4>4 DEF Named
    <3> QED
      BY <2>6, <3>9, <3>10 DEF ObjectsInv
  <2> QED
    BY <2>7, <2>8
<1> QED
  BY <1>3, <1>4

\* While a port is worked on, or a command issued, the ports probed stay.
LEMMA ProbedStays ==
  ASSUME UNCHANGED <<machine, controller>>,
         (pc = pc' /\ i = i') \/ {pc, pc'} \cap {"probe", "probe_next"} = {}
  PROVE  Probed' = Probed
<1>1. \A d : d \in UNION {Drives(c) : c \in 1 .. controller}' <=> d \in UNION {Drives(c) : c \in 1 .. controller}
  BY DEF Drives
<1> QED
  BY <1>1 DEF Probed

\* The steps on one port keep the objects.
LEMMA ObjectsWork ==
  ASSUME ObjectsInv, UNCHANGED <<mem, machine, ports, usable_ports, controller, i, port_at>>,
         pc \in Working, pc' \in Working \cup {"idle"}
  PROVE  ObjectsInv'
<1>1. {pc, pc'} \cap {"probe", "probe_next"} = {} /\ pc' # "probe"
  BY DEF Working
<1>2. Probed' = Probed
  BY <1>1, ProbedStays
<1>3. controller' \in 1 .. Len(machine) /\ i' \in Nat /\ port_at' \in 0 .. usable_ports - 1
  BY DEF ObjectsInv, Progress
<1> QED
  BY <1>1, <1>2, <1>3, ObjectsStay

\* All ports of the controller have been probed when the next one is turned to.
LEMMA ObjectsNextPort == ObjectsInv /\ NextPort => ObjectsInv'
<1> SUFFICES ASSUME ObjectsInv, NextPort PROVE ObjectsInv'
  OBVIOUS
<1>1. Progress
  BY DEF ObjectsInv
<1>2. /\ UNCHANGED <<mem, machine, ports, usable_ports>>
      /\ i' \in Nat /\ ((pc = "probe" /\ i = PortCount) \/ pc = "configured")
      /\ \/ /\ i' < usable_ports /\ pc' = "stop" /\ port_at' = i' /\ controller' = controller
         \/ controller < Len(machine) /\ pc' = "probe_next" /\ controller' = controller + 1
         \/ pc' = "idle" /\ controller' = controller
  BY <1>1 DEF NextPort, Goto, Progress
<1>3. /\ controller' \in 1 .. Len(machine) /\ pc' # "probe"
      /\ (pc' \in Working => port_at' \in 0 .. usable_ports - 1)
  BY <1>1, <1>2, Machine DEF ObjectsInv, Progress, Held, Working
<1> DEFINE Drive(c, p) == p \in DOMAIN machine[c] /\ PortType(machine[c][p]) # "none"
<1>4. \A d : d \in Probed <=> \E c \in 1 .. controller, p \in 0 .. PortCount - 1 : d = <<c, p>> /\ Drive(c, p)
  <2>1. \A c \in 1 .. controller : DOMAIN machine[c] \subseteq 0 .. PortCount - 1
    BY <1>1, Machine DEF Progress
  <2>2. pc # "probe_next" /\ (pc = "probe" => i = PortCount)
    BY <1>2
  <2>3. \A p \in 0 .. PortCount - 1 : p < PortCount
    BY <1>1, Machine
  <2> QED
    BY <2>1, <2>2, <2>3, ProbedIs
<1>5. \A d : d \in Probed' <=> \E c \in 1 .. controller, p \in 0 .. PortCount - 1 : d = <<c, p>> /\ Drive(c, p)
  <2> SUFFICES ASSUME NEW d
               PROVE d \in Probed' <=> \E c \in 1 .. controller, p \in 0 .. PortCount - 1 :
                                          d = <<c, p>> /\ Drive(c, p)
    OBVIOUS
  <2>1. d \in Probed' <=>
          \E c \in 1 .. controller' : \E p \in DOMAIN machine[c] :
             /\ d = <<c, p>> /\ PortType(machine[c][p]) # "none"
             /\ c = controller' => pc' # "probe_next" /\ (pc' = "probe" => p < i')
    <3>1. (d \in Probed)' <=>
            (\E c \in 1 .. controller : \E p \in DOMAIN machine[c] :
               /\ d = <<c, p>> /\ PortType(machine[c][p]) # "none"
               /\ c = controller => pc # "probe_next" /\ (pc = "probe" => p < i))'
      <4>1. d \in Probed <=>
              \E c \in 1 .. controller : \E p \in DOMAIN machine[c] :
                /\ d = <<c, p>> /\ PortType(machine[c][p]) # "none"
                /\ c = controller => pc # "probe_next" /\ (pc = "probe" => p < i)
        BY ProbedIs
      <4> QED
        BY ProbedIs, PTL
    <3> QED
      BY <1>2, <3>1 DEF PortType
  <2>2. \A c \in 1 .. controller : DOMAIN machine[c] \subseteq 0 .. PortCount - 1
    BY <1>1, Machine DEF Progress
  <2>3. CASE pc' = "probe_next" /\ controller' = controller + 1
    <3>1. \A c \in 1 .. controller' : (c = controller' => FALSE) <=> c \in 1 .. controller
      BY <1>1, <2>3, Machine
    <3>2. \A c \in 1 .. controller : c \in 1 .. controller'
      BY <1>1, <2>3, Machine
    <3> QED
      BY <2>1, <2>2, <2>3, <3>1, <3>2
  <2>4. CASE controller' = controller /\ pc' # "probe_next"
    BY <1>3, <2>1, <2>2, <2>4
  <2> QED
    BY <1>2, <2>3, <2>4
<1>6. Probed' = Probed
  <2> HIDE DEF Drive
  <2>1. \A d : d \in Probed' <=> d \in Probed
    BY <1>4, <1>5
  <2> QED
    BY <2>1
<1> QED
  BY <1>2, <1>3, <1>6, ObjectsStay

\* The next controller starts with no port probed.
LEMMA ObjectsNextController == ObjectsInv /\ NextController => ObjectsInv'
<1> SUFFICES ASSUME ObjectsInv, NextController PROVE ObjectsInv'
  OBVIOUS
<1>1. /\ UNCHANGED <<mem, machine, ports, usable_ports, controller, port_at>>
      /\ pc = "probe_next" /\ pc' = "probe" /\ i' = 0
  BY DEF NextController, At, Goto
<1>2. controller' \in 1 .. Len(machine) /\ i' \in Nat /\ i' <= PortCount /\ pc' \notin Working
  BY <1>1, AhciAssumption DEF ObjectsInv, Progress, Working
<1>3. \A d \in UNION {Drives(c) : c \in 1 .. controller} : d[2] \in Nat
  BY Machine DEF ObjectsInv, Progress, Drives
<1>4. Probed' = Probed
  <2>1. \A c : Drives(c)' = Drives(c)
    BY <1>1 DEF Drives, PortType
  <2>2. UNION {Drives(c) : c \in 1 .. controller}' = UNION {Drives(c) : c \in 1 .. controller}
    BY <1>1, <2>1
  <2>3. Probed = {d \in UNION {Drives(c) : c \in 1 .. controller} : d[1] # controller}
    BY <1>1 DEF Probed
  <2>4. Probed' = {d \in UNION {Drives(c) : c \in 1 .. controller} : d[1] = controller => d[2] < 0}
    BY <1>1, <2>2 DEF Probed
  <2> QED
    BY <1>3, <2>3, <2>4
<1> QED
  BY <1>1, <1>2, <1>4, ObjectsStay

\* The steps of the driver at a label, all but those that probe.
LEMMA WorkingSteps ==
  ASSUME \/ ClearFre \/ ClearSt \/ StopWait \/ StopWaitCr \/ SetUp \/ StartWait \/ SetFre \/ SetSt
         \/ CommandStep
  PROVE  /\ UNCHANGED <<mem, machine, ports, usable_ports, controller, i, port_at>>
         /\ pc \in Working /\ pc' \in Working \cup {"idle"}
<1>1. CASE ClearFre
  BY <1>1 DEF ClearFre, At, Goto, Configuring, Working
<1>2. CASE ClearSt
  BY <1>2 DEF ClearSt, Goto, Configuring, Working
<1>3. CASE StopWait
  BY <1>3 DEF StopWait, At, Goto, Configuring, Working
<1>4. CASE StopWaitCr
  BY <1>4 DEF StopWaitCr, At, Goto, Configuring, Working
<1>5. CASE SetUp
  BY <1>5 DEF SetUp, At, Goto, Configuring, Working
<1>6. CASE StartWait
  BY <1>6 DEF StartWait, At, Goto, Configuring, Working
<1>7. CASE SetFre
  BY <1>7 DEF SetFre, At, Goto, Configuring, Working
<1>8. CASE SetSt
  BY <1>8 DEF SetSt, At, Goto, Configuring, Working
<1>9. CASE CommandStep
  <2>1. CASE ClearInterruptStatus \/ Fill \/ Spin \/ SpinEnds
    BY <2>1 DEF ClearInterruptStatus, Fill, Spin, SpinEnds, At, Goto, Issuing, Working
  <2>2. CASE Issue
    BY <2>2 DEF Issue, At, Goto, Issuing, Working
  <2>3. CASE PollIssue
    BY <2>3 DEF PollIssue, At, Goto, Issuing, Working
  <2>4. CASE PollStatus
    BY <2>4 DEF PollStatus, At, Goto, Issuing, Working
  <2> QED
    BY <1>9, <2>1, <2>2, <2>3, <2>4 DEF CommandStep
<1> QED
  BY <1>1, <1>2, <1>3, <1>4, <1>5, <1>6, <1>7, <1>8, <1>9

\* A device, whatever it does, changes nothing of the driver.
LEMMA DeviceLeaves ==
  ASSUME DeviceStep
  PROVE  UNCHANGED <<mem, machine, ports, usable_ports, controller, i, pc, port_at, slot, pages>>
BY DEF DeviceStep, EngineFollows, Completes, Fails, Busies, DeviceOnly

\* Every step keeps the objects of the ports.
LEMMA ObjectsSteps == ObjectsInv /\ [Next]_vars => ObjectsInv'
<1> SUFFICES ASSUME ObjectsInv, [Next]_vars PROVE ObjectsInv'
  OBVIOUS
<1>1. CASE UNCHANGED vars \/ DeviceStep
  <2>1. UNCHANGED <<mem, machine, ports, usable_ports, controller, i, pc, port_at>>
    BY <1>1, DeviceLeaves DEF vars, ahciVars
  <2>2. Probed' = Probed
    BY <2>1, ProbedStays
  <2>3. /\ controller' \in 1 .. Len(machine) /\ i' \in Nat /\ (pc' = "probe" => i' <= PortCount)
        /\ (pc' \in Working => port_at' \in 0 .. usable_ports - 1)
    BY <2>1 DEF ObjectsInv, Progress
  <2> QED
    BY <2>1, <2>2, <2>3, ObjectsStay
<1>2. CASE Configure
  BY <1>2, ObjectsProbe, ObjectsNextPort, ObjectsNextController, WorkingSteps, ObjectsWork DEF Configure
<1>3. CASE CommandStep
  BY <1>3, WorkingSteps, ObjectsWork
<1>4. CASE \E n \in 0 .. PortCount - 1 : Command(n)
  <2>1. /\ UNCHANGED <<mem, machine, ports, usable_ports, controller, i>>
        /\ pc = "idle" /\ pc' \in {"idle", "clear_status"} /\ port_at' \in 0 .. usable_ports - 1
    BY <1>4 DEF Command, Goto
  <2>2. Probed' = Probed
    BY <2>1, ProbedStays
  <2> QED
    BY <2>1, <2>2, ObjectsStay DEF ObjectsInv, Progress
<1> QED
  BY <1>1, <1>2, <1>3, <1>4 DEF Next, DriverStep

\* What is held for the ports, in every reachable state.
LEMMA ObjectsAlways == Spec => []ObjectsInv
<1>1. ObjectsInv /\ [Next]_vars => ObjectsInv'
  BY ObjectsSteps
<1> QED
  BY <1>1, ObjectsInitial, PTL DEF Spec

\* As long as no third port is usable, each has an object of its own and the
\* objects name exactly the ports with a drive probed so far.
THEOREM PortsStayKept == Spec => []PortsKept
<1>1. ObjectsInv => PortsKept
  <2> SUFFICES ASSUME ObjectsInv, usable_ports <= 2
               PROVE  /\ Cardinality({ports[n] : n \in DOMAIN ports}) = usable_ports
                      /\ {mem[Length(ports[n])] : n \in DOMAIN ports} = {PortAddress(h) : h \in Probed}
    BY DEF PortsKept, Probed
  <2>1. /\ usable_ports \in {0, 1, 2} /\ DOMAIN ports = 1 .. usable_ports
        /\ (usable_ports > 0 => ports[1] = first)
        /\ (usable_ports = 2 => ports[2] = Others(mem))
    BY DEF ObjectsInv, Held
  <2>2. Others(mem) # first
    BY Addresses DEF Others, NULL
  <2>3. CASE usable_ports = 0
    <3>1. {ports[n] : n \in DOMAIN ports} = {}
      BY <2>1, <2>3
    <3> QED
      BY <2>3, <3>1, FS_EmptySet DEF ObjectsInv, Named
  <2>4. CASE usable_ports = 1
    <3>1. {ports[n] : n \in DOMAIN ports} = {first}
      BY <2>1, <2>4
    <3> QED
      BY <2>4, <3>1, FS_Singleton DEF ObjectsInv, Named
  <2>5. CASE usable_ports = 2
    <3>1. DOMAIN ports = {1, 2}
      BY <2>1, <2>5
    <3>2. {ports[n] : n \in DOMAIN ports} = {first} \cup {Others(mem)}
      BY <2>1, <2>5, <3>1
    <3>3. Cardinality({first}) = 1 /\ IsFiniteSet({first})
      BY FS_Singleton
    <3>4. Cardinality({first} \cup {Others(mem)}) = 2
      BY <2>2, <3>3, FS_AddElement
    <3> QED
      BY <2>5, <3>2, <3>4 DEF ObjectsInv, Named
  <2> QED
    BY <2>1, <2>3, <2>4, <2>5
<1> QED
  BY <1>1, ObjectsAlways, PTL

-----------------------------------------------------------------------------
(* What the steps write in the registers.                                  *)

SameMemory(r, to) == to.list = r.list /\ to.fis = r.fis /\ to.tables = r.tables /\ to.gap = r.gap

Bits == ClearFre \/ ClearSt \/ SetFre \/ SetSt \/ ClearInterruptStatus

Unwritten ==
  \/ Probe \/ NextPort \/ NextController \/ StopWait \/ StopWaitCr \/ StartWait
  \/ Fill \/ Spin \/ SpinEnds \/ PollIssue \/ PollStatus
  \/ UNCHANGED vars

\* Every step of the driver or the device is one of these kinds.
LEMMA Kinds ==
  [Next]_vars => \/ DeviceStep \/ Bits \/ SetUp \/ Issue \/ Unwritten
                 \/ \E n \in 0 .. PortCount - 1 : Command(n)
BY DEF Next, DriverStep, Configure, CommandStep, Bits, Unwritten

\* A register the driver writes, when the port is one of the machine's.
LEMMA WritesHere ==
  ASSUME IInv, Here \in Hw, UNCHANGED <<mem, machine, ports, port_at>>,
         NEW r, hba' = [hba EXCEPT ![Here] = r]
  PROVE  /\ Here' = Here /\ Hw' = Hw /\ hba'[Here] = r
         /\ \A g \in Hw \ {Here} : hba'[g] = hba[g]
BY SamePort DEF IInv, RegistersTyped

\* The steps that write bits leave the memory of every port, and issue nothing.
LEMMA BitsWrite ==
  ASSUME IInv, ObjectsInv, Bits
  PROVE  /\ Here' = Here /\ Hw' = Hw /\ Here \in Hw /\ UNCHANGED <<pages, slot>>
         /\ \A g \in Hw : SameMemory(hba[g], hba'[g]) /\ hba'[g].ci \subseteq hba[g].ci
<1>1. UNCHANGED <<mem, machine, ports, port_at>> /\ pc \in Working
  BY WorkingSteps DEF Bits, CommandStep
<1>2. Here \in Hw
  BY <1>1, HereIsPort
<1>3. UNCHANGED <<pages, slot>>
  BY DEF Bits, ClearFre, ClearSt, SetFre, SetSt, ClearInterruptStatus, Configuring, Issuing
<1> DEFINE Kept(r) == SameMemory(hba[Here], r) /\ r.ci \subseteq hba[Here].ci
<1>4. \E r : hba' = [hba EXCEPT ![Here] = r] /\ Kept(r)
  <2>1. DOMAIN hba[Here] = Fields
    BY <1>2 DEF IInv, RegistersTyped
  <2>2. /\ \A x : Kept([hba[Here] EXCEPT !.fre = x]) /\ Kept([hba[Here] EXCEPT !.st = x])
        /\ Kept([hba[Here] EXCEPT !.st = FALSE, !.ci = {}])
        /\ \A x : Kept([hba[Here] EXCEPT !.tfes = x])
    BY <2>1 DEF SameMemory, Fields
  <2>3. \/ \E x : hba' = [hba EXCEPT ![Here] = [hba[Here] EXCEPT !.fre = x]]
        \/ \E x : hba' = [hba EXCEPT ![Here] = [hba[Here] EXCEPT !.st = x]]
        \/ hba' = [hba EXCEPT ![Here] = [hba[Here] EXCEPT !.st = FALSE, !.ci = {}]]
        \/ \E x : hba' = [hba EXCEPT ![Here] = [hba[Here] EXCEPT !.tfes = x]]
    BY DEF Bits, ClearFre, ClearSt, SetFre, SetSt, ClearInterruptStatus, Driver, Here
  <2> HIDE DEF Kept
  <2> QED
    BY <2>2, <2>3
<1>5. PICK r : hba' = [hba EXCEPT ![Here] = r] /\ Kept(r)
  BY <1>4
<1>6. Here' = Here /\ Hw' = Hw /\ hba'[Here] = r /\ \A g \in Hw \ {Here} : hba'[g] = hba[g]
  BY <1>1, <1>2, <1>5, WritesHere
<1>7. \A g \in Hw : SameMemory(hba[g], hba'[g]) /\ hba'[g].ci \subseteq hba[g].ci
  BY <1>5, <1>6 DEF SameMemory
<1> QED
  BY <1>2, <1>3, <1>6, <1>7

\* Issue adds the slot to what is issued on the port, and writes nothing else.
LEMMA IssueWrites ==
  ASSUME IInv, ObjectsInv, Issue
  PROVE  /\ Here' = Here /\ Hw' = Hw /\ Here \in Hw /\ UNCHANGED <<pages, slot>>
         /\ \A g \in Hw : SameMemory(hba[g], hba'[g])
         /\ hba'[Here].ci = hba[Here].ci \cup {slot}
         /\ \A g \in Hw \ {Here} : hba'[g] = hba[g]
<1>1. UNCHANGED <<mem, machine, ports, port_at>> /\ pc \in Working
  BY WorkingSteps DEF CommandStep
<1>2. Here \in Hw
  BY <1>1, HereIsPort
<1>3. UNCHANGED <<pages, slot>>
  BY DEF Issue, Issuing
<1> DEFINE r == [hba[Here] EXCEPT !.ci = @ \cup {slot}]
<1>4. hba' = [hba EXCEPT ![Here] = r]
  BY DEF Issue, Driver
<1>5. SameMemory(hba[Here], r) /\ r.ci = hba[Here].ci \cup {slot}
  BY <1>2 DEF IInv, RegistersTyped, SameMemory, Fields
<1> HIDE DEF r
<1>6. Here' = Here /\ Hw' = Hw /\ hba'[Here] = r /\ \A g \in Hw \ {Here} : hba'[g] = hba[g]
  BY <1>1, <1>2, <1>4, WritesHere
<1>7. \A g \in Hw : SameMemory(hba[g], hba'[g])
  BY <1>5, <1>6 DEF SameMemory
<1> QED
  BY <1>2, <1>3, <1>5, <1>6, <1>7

\* SetUp gives the port pages that were not given out.
LEMMA SetUpWrites ==
  ASSUME IInv, ObjectsInv, SetUp
  PROVE  /\ Here' = Here /\ Hw' = Hw /\ Here \in Hw /\ slot' = slot
         /\ \A g \in Hw \ {Here} : hba'[g] = hba[g]
         /\ hba'[Here].ci = hba[Here].ci
         /\ \E gap \in {1, 2} :
              /\ hba'[Here].list = pages /\ hba'[Here].fis = pages + gap
              /\ hba'[Here].tables = pages + 2 * gap /\ hba'[Here].gap = gap
              /\ pages' = pages + (2 + Slots) * gap
<1>1. UNCHANGED <<mem, machine, ports, port_at>> /\ pc \in Working /\ slot' = slot
  BY WorkingSteps DEF SetUp, Configuring
<1>2. Here \in Hw
  BY <1>1, HereIsPort
<1>3. PICK gap \in {1, 2} :
        /\ hba' = [hba EXCEPT ![Here] = [hba[Here] EXCEPT
                  !.list = pages, !.fis = pages + gap, !.tables = pages + 2 * gap, !.gap = gap]]
        /\ pages' = pages + (2 + Slots) * gap
  BY DEF SetUp, Driver, Here
<1> DEFINE r == [hba[Here] EXCEPT
                   !.list = pages, !.fis = pages + gap, !.tables = pages + 2 * gap, !.gap = gap]
<1>4. /\ r.list = pages /\ r.fis = pages + gap /\ r.tables = pages + 2 * gap /\ r.gap = gap
      /\ r.ci = hba[Here].ci
  BY <1>2 DEF IInv, RegistersTyped, Fields
<1>5. hba' = [hba EXCEPT ![Here] = r]
  BY <1>3
<1> HIDE DEF r
<1>6. Here' = Here /\ Hw' = Hw /\ hba'[Here] = r /\ \A g \in Hw \ {Here} : hba'[g] = hba[g]
  BY <1>1, <1>2, <1>5, WritesHere
<1> QED
  BY <1>1, <1>2, <1>3, <1>4, <1>6

-----------------------------------------------------------------------------
(* The table a command is written in.                                      *)

Preparing == {"clear_status", "fill", "spin", "issue"}

TableInv ==
  /\ slot \in 0 .. Slots - 1 /\ \A h \in Hw : hba[h].ci \subseteq 0 .. Slots - 1
  /\ pc \in Preparing => slot \notin hba[Here].ci

\* A step that issues nothing and goes on with the same slot, if with any.
LEMMA TableStays ==
  ASSUME TableInv, Hw' = Hw, \A g \in Hw : hba'[g].ci \subseteq hba[g].ci,
         slot' \in 0 .. Slots - 1,
         pc' \in Preparing => /\ Here' \in Hw /\ slot' \notin hba[Here'].ci
  PROVE  TableInv'
BY DEF TableInv

\* Every step: a slot is chosen from those not issued, the device only takes issued
\* ones away, and the next one is issued when the table is done.
LEMMA TableSteps ==
  ASSUME IInv, ObjectsInv, TableInv, [Next]_vars
  PROVE  TableInv'
<1>1. slot \in 0 .. Slots - 1 /\ Slots \in Nat /\ Preparing \subseteq Working
  BY AhciAssumption DEF TableInv, Preparing, Working
<1>2. pc \in Preparing => Here \in Hw /\ slot \notin hba[Here].ci
  BY <1>1, HereIsPort DEF TableInv
<1>3. CASE DeviceStep
  <2>1. Here' = Here /\ Hw' = Hw /\ pc' = pc /\ slot' = slot
    BY <1>3, DeviceLeaves, SamePort
  <2>2. \A g \in Hw : hba'[g].ci \subseteq hba[g].ci
    BY <1>3, DeviceMoves DEF ByDevice
  <2> QED
    BY <1>1, <1>2, <2>1, <2>2, TableStays
<1>4. CASE Bits
  <2>1. Here' = Here /\ Hw' = Hw /\ slot' = slot /\ \A g \in Hw : hba'[g].ci \subseteq hba[g].ci
    BY <1>4, BitsWrite
  <2>2. pc' \in Preparing => pc \in Preparing
    BY <1>4 DEF Bits, ClearFre, ClearSt, SetFre, SetSt, ClearInterruptStatus, At, Goto, Preparing
  <2> QED
    BY <1>1, <1>2, <2>1, <2>2, TableStays
<1>5. CASE SetUp
  <2>1. /\ Hw' = Hw /\ slot' = slot /\ pc' = "start"
        /\ \A g \in Hw : hba'[g].ci \subseteq hba[g].ci
    BY <1>5, SetUpWrites DEF SetUp, At, Goto
  <2> QED
    BY <1>1, <2>1, TableStays DEF Preparing
<1>6. CASE Issue
  <2>1. /\ Here \in Hw /\ Hw' = Hw /\ slot' = slot /\ pc' = "poll"
        /\ hba'[Here].ci = hba[Here].ci \cup {slot}
        /\ \A g \in Hw \ {Here} : hba'[g] = hba[g]
    BY <1>6, IssueWrites DEF Issue, At, Goto
  <2>2. \A h \in Hw : hba'[h].ci \subseteq 0 .. Slots - 1
    BY <1>1, <2>1 DEF TableInv
  <2> QED
    BY <1>1, <2>1, <2>2 DEF TableInv, Preparing
<1>7. CASE Unwritten
  <2>1. hba' = hba /\ machine' = machine /\ slot' = slot
    BY <1>7 DEF Unwritten, Probe, NextPort, NextController, StopWait, StopWaitCr, StartWait, Fill,
      Spin, SpinEnds, PollIssue, PollStatus, Configuring, At, vars, ahciVars
  <2>2. pc' \in Preparing => pc \in Preparing /\ UNCHANGED <<mem, machine, ports, port_at>>
    BY <1>7 DEF Unwritten, Probe, NextPort, NextController, StopWait, StopWaitCr, StartWait, Fill,
      Spin, SpinEnds, PollIssue, PollStatus, At, Goto, vars, ahciVars, Preparing
  <2>3. Hw' = Hw /\ (pc' \in Preparing => Here' = Here)
    BY <2>1, <2>2, SamePort DEF Hw
  <2> QED
    BY <1>1, <1>2, <2>1, <2>2, <2>3, TableStays
<1>8. ASSUME NEW n \in 0 .. PortCount - 1, Command(n)
      PROVE  TableInv'
  <2>1. /\ UNCHANGED <<mem, machine, ports, hba, usable_ports>> /\ port_at' = n /\ n \in 0 .. usable_ports - 1
        /\ \/ pc' = "idle" /\ slot' = slot
           \/ /\ pc' = "clear_status" /\ hba[PortOf(n)].ci # 0 .. Slots - 1
              /\ slot' = FindCommandSlot(PortOf(n))
    BY <1>8 DEF Command, Goto
  <2>2. Hw' = Hw /\ hba' = hba
    BY <2>1 DEF Hw
  <2>3. CASE pc' = "idle" /\ slot' = slot
    BY <1>1, <2>2, <2>3, TableStays DEF Preparing
  <2>4. CASE /\ pc' = "clear_status" /\ hba[PortOf(n)].ci # 0 .. Slots - 1
             /\ slot' = FindCommandSlot(PortOf(n))
    <3>1. PortOf(n) \in Hw
      BY <2>1, PortExists
    <3>2. Here' = PortOf(n)
      <4>1. \A a : PortAt(a)' = PortAt(a)
        BY <2>1, <2>2 DEF PortAt, PortAddress, heap_end
      <4> QED
        BY <2>1, <4>1 DEF Here, PortOf, Length
    <3> DEFINE issued == hba[PortOf(n)].ci
               left == (0 .. Slots - 1) \ issued
    <3>3. issued \subseteq 0 .. Slots - 1 /\ issued # 0 .. Slots - 1
      BY <2>4, <3>1 DEF TableInv
    <3>4. 0 .. Slots - 1 \subseteq Nat
      BY <1>1
    <3>5. left # {} /\ left \subseteq Nat
      <4> HIDE DEF issued
      <4> QED
        BY <3>3, <3>4
    <3>6. slot' \in left
      <4> HIDE DEF left
      <4>1. \E s \in left : \A t \in left : s <= t
        BY <3>5, LeastNatural
      <4>2. slot' = MinOf(left)
        BY <2>4 DEF FindCommandSlot, left
      <4> QED
        BY <4>1, <4>2 DEF MinOf
    <3> QED
      <4>1. Here' \in Hw /\ slot' \notin hba[Here'].ci /\ slot' \in 0 .. Slots - 1
        BY <3>1, <3>2, <3>6
      <4>2. \A g \in Hw : hba'[g].ci \subseteq hba[g].ci
        BY <2>2
      <4> QED
        BY <2>2, <4>1, <4>2, TableStays
  <2> QED
    BY <2>1, <2>3, <2>4
<1> QED
  BY <1>3, <1>4, <1>5, <1>6, <1>7, <1>8, Kinds

\* The table the driver clears and fills is not one the device may be reading: its
\* slot is not issued until the table is done, although a failed command stays
\* issued for ever.
THEOREM TableStaysFree == Spec => []TableIsFree
<1>1. Init => TableInv
  <2> SUFFICES ASSUME Init PROVE TableInv
    OBVIOUS
  <2>1. /\ hba \in [Hw -> FirmwarePorts] /\ slot = 0 /\ pc = "probe"
        /\ Slots \in Nat \ {0}
    BY AhciAssumption, LeftByFirmware DEF Init
  <2> QED
    BY <2>1 DEF TableInv, FirmwarePorts, Preparing
<1>2. IInv /\ ObjectsInv /\ TableInv /\ [Next]_vars => TableInv'
  BY TableSteps
<1>3. TableInv => TableIsFree
  BY DEF TableInv, TableIsFree, Preparing
<1> QED
  BY <1>1, <1>2, <1>3, Invariance, ObjectsAlways, PTL DEF Spec

-----------------------------------------------------------------------------
(* The memory the ports use.                                               *)

End(r) == r.list + (2 + Slots) * r.gap

Placed(r) ==
  /\ r.list \in Nat \ {0} /\ r.gap \in {1, 2}
  /\ r.fis = r.list + r.gap /\ r.tables = r.list + 2 * r.gap

PagesInv ==
  /\ pages \in Nat \ {0}
  /\ \A h \in SetUps : Placed(hba[h]) /\ End(hba[h]) <= pages
  /\ \A h, g \in SetUps : h # g => End(hba[h]) <= hba[g].list \/ End(hba[g]) <= hba[h].list

\* One page lies after another.
LEMMA PagesApart ==
  ASSUME NEW p \in Nat, NEW q \in Nat, p < q
  PROVE  /\ p * PageUnits \in Nat /\ q * PageUnits \in Nat
         /\ p * PageUnits + PageUnits <= q * PageUnits
<1>1. PageUnits \in Nat
  BY AhciAssumption
<1>2. PICK d \in Nat : q = p + 1 + d
  <2>1. q - p - 1 \in Nat /\ q = p + 1 + (q - p - 1)
    OBVIOUS
  <2> QED
    BY <2>1
<1>3. d * PageUnits \in Nat /\ p * PageUnits \in Nat
  BY <1>1
<1>4. q * PageUnits = p * PageUnits + PageUnits + d * PageUnits
  BY <1>1, <1>2
<1> QED
  BY <1>1, <1>3, <1>4

\* Two pages further is two pages of units further.
LEMMA TwoPages ==
  ASSUME NEW p \in Nat
  PROVE  /\ p * PageUnits \in Nat /\ (p + 1) * PageUnits = p * PageUnits + PageUnits
         /\ (p + 2) * PageUnits = p * PageUnits + 2 * PageUnits
BY AhciAssumption

\* Where the units of a port lie: those of the tables run over the last of its
\* pages, by one unit and only when the pages follow each other.
LEMMA UnitsLie ==
  ASSUME NEW h \in Hw, Placed(hba[h]), NEW f \in {"list", "fis", "tables"}, NEW x \in Units(h)[f]
  PROVE  LET list == hba[h].list
             gap == hba[h].gap
             end == End(hba[h])
         IN /\ f = "list" => list * PageUnits <= x /\ x < list * PageUnits + (PageUnits \div 4)
            /\ f = "fis" => x = (list + gap) * PageUnits
            /\ f = "tables" => /\ (list + 2 * gap) * PageUnits <= x
                               /\ x < end * PageUnits \/ x = end * PageUnits + PageUnits - 1
            /\ x \in Nat
<1> DEFINE list == hba[h].list
           gap == hba[h].gap
           end == End(hba[h])
<1>1. /\ list \in Nat \ {0} /\ gap \in {1, 2} /\ end = list + (2 + Slots) * gap
      /\ hba[h].fis = list + gap /\ hba[h].tables = list + 2 * gap
  BY DEF Placed, End
<1>2. PageUnits \in Nat \ {0} /\ PageUnits \div 4 \in Nat /\ Slots = 2 * PageUnits /\ Slots \in Nat
  BY AhciAssumption
<1>3. CASE f = "list"
  <2>1. PICK u \in 0 .. (PageUnits \div 4) - 1 : x = list * PageUnits + u
    BY <1>3 DEF Units
  <2>2. list * PageUnits \in Nat
    BY <1>1, <1>2
  <2> DEFINE l == list * PageUnits
             n == PageUnits \div 4
  <2>3. l \in Nat /\ n \in Nat /\ u \in 0 .. n - 1 /\ x = l + u
    BY <1>2, <2>1, <2>2
  <2> HIDE DEF l, n
  <2>4. l <= x /\ x < l + n /\ x \in Nat
    BY <2>3
  <2> QED
    BY <1>3, <2>4 DEF l, n
<1>4. CASE f = "fis"
  <2>1. x = (list + gap) * PageUnits
    BY <1>1, <1>4 DEF Units
  <2>2. list + gap \in Nat
    BY <1>1
  <2>3. x \in Nat
    BY <1>2, <2>1, <2>2
  <2> QED
    BY <1>4, <2>1, <2>3
<1>5. CASE f = "tables"
  <2>1. PICK s \in 0 .. Slots - 1 : x = (hba[h].tables + s * hba[h].gap) * PageUnits + s
    BY <1>5 DEF Units
  <2> DEFINE p == list + 2 * gap + s * gap
  <2>2. x = p * PageUnits + s /\ s \in Nat /\ s <= Slots - 1
    BY <1>1, <1>2, <2>1
  <2>3. p \in Nat /\ list + 2 * gap \in Nat /\ list + 2 * gap <= p /\ end \in Nat
    <3>1. CASE gap = 1
      BY <1>1, <1>2, <2>2, <3>1
    <3>2. CASE gap = 2
      BY <1>1, <1>2, <2>2, <3>2
    <3> QED
      BY <1>1, <3>1, <3>2
  <2>4. \/ p + 2 <= end /\ (s < Slots - 1 \/ gap = 2)
        \/ s = Slots - 1 /\ p + 1 = end
    <3>1. CASE gap = 1
      BY <1>1, <1>2, <2>2, <3>1
    <3>2. CASE gap = 2
      BY <1>1, <1>2, <2>2, <3>2
    <3> QED
      BY <1>1, <3>1, <3>2
  <2> HIDE DEF p, list, gap, end
  <2> DEFINE low == (list + 2 * gap) * PageUnits
             here == p * PageUnits
             top == end * PageUnits
  <2>5. low <= here /\ low \in Nat /\ here \in Nat /\ top \in Nat
    <3>1. CASE list + 2 * gap = p
      BY <1>2, <2>3, <3>1
    <3>2. CASE list + 2 * gap < p
      BY <1>2, <2>3, <3>2, PagesApart
    <3> QED
      BY <2>3, <3>1, <3>2
  <2>6. CASE p + 2 <= end /\ (s < Slots - 1 \/ gap = 2)
    <3>1. here + 2 * PageUnits <= top
      <4>1. p + 2 \in Nat /\ (p + 2) * PageUnits = here + 2 * PageUnits
        BY <2>3, TwoPages
      <4>2. CASE p + 2 = end
        BY <4>1, <4>2, <2>5, <1>2
      <4>3. CASE p + 2 < end
        BY <4>1, <4>3, <2>3, <2>5, <1>2, PagesApart
      <4> QED
        BY <2>6, <2>3, <4>1, <4>2, <4>3
    <3>2. x = here + s
      BY <2>2
    <3> HIDE DEF low, here, top
    <3>3. low <= x /\ x < top /\ x \in Nat
      BY <1>2, <2>2, <2>5, <3>1, <3>2
    <3> QED
      BY <1>5, <3>3 DEF low, top, list, gap, end
  <2>7. CASE s = Slots - 1 /\ p + 1 = end
    <3>1. here + PageUnits = top
      BY <2>3, <2>7, TwoPages
    <3>2. x = here + s
      BY <2>2
    <3> HIDE DEF low, here, top
    <3>3. low <= x /\ x = top + PageUnits - 1 /\ x \in Nat
      BY <1>2, <2>2, <2>5, <2>7, <3>1, <3>2
    <3> QED
      BY <1>5, <3>3 DEF low, top, list, gap, end
  <2> QED
    BY <2>4, <2>6, <2>7
<1> QED
  BY <1>3, <1>4, <1>5

\* Within one port: the list, the received FIS and the tables follow each other.
LEMMA ApartWithin ==
  ASSUME NEW h \in Hw, Placed(hba[h]),
         NEW f \in {"list", "fis", "tables"}, NEW k \in {"list", "fis", "tables"}, f # k
  PROVE  Units(h)[f] \cap Units(h)[k] = {}
<1> DEFINE list == hba[h].list
           gap == hba[h].gap
<1>1. list \in Nat /\ gap \in {1, 2} /\ list + gap \in Nat /\ list + 2 * gap \in Nat
      /\ list < list + gap /\ list + gap < list + 2 * gap
  BY DEF Placed
<1> DEFINE a == list * PageUnits
           b == (list + gap) * PageUnits
           c == (list + 2 * gap) * PageUnits
           n == PageUnits \div 4
<1>2. /\ a \in Nat /\ b \in Nat /\ c \in Nat /\ a + PageUnits <= b /\ b + PageUnits <= c
      /\ n \in Nat /\ n < PageUnits /\ PageUnits \in Nat
  <2>1. n \in Nat /\ n < PageUnits /\ PageUnits \in Nat
    BY AhciAssumption
  <2>2. a \in Nat /\ b \in Nat /\ c \in Nat /\ a + PageUnits <= b /\ b + PageUnits <= c
    BY <1>1, PagesApart
  <2> QED
    BY <2>1, <2>2
<1>3. \A x \in Units(h)["list"] : x \in Nat /\ x < a + n
  BY UnitsLie
<1>4. \A x \in Units(h)["fis"] : x = b
  BY UnitsLie
<1>5. \A x \in Units(h)["tables"] : x \in Nat /\ c <= x
  BY UnitsLie
<1> HIDE DEF a, b, c, n
<1>6. \A x \in Units(h)["list"] : x \in Nat /\ x < b
  BY <1>2, <1>3
<1>7. \A x \in Units(h)["tables"] : x \in Nat /\ b < x
  BY <1>2, <1>5
<1>8. b \in Nat
  BY <1>2
<1>9. /\ Units(h)["list"] \cap Units(h)["fis"] = {}
      /\ Units(h)["list"] \cap Units(h)["tables"] = {}
      /\ Units(h)["fis"] \cap Units(h)["tables"] = {}
  BY <1>4, <1>6, <1>7, <1>8
<1> QED
  BY <1>9

\* Between two ports, one placed after the other: the unit that runs over the end of
\* the first falls behind the list of the second, in the page that list starts.
LEMMA ApartBetween ==
  ASSUME NEW h \in Hw, NEW g \in Hw, Placed(hba[h]), Placed(hba[g]), End(hba[h]) <= hba[g].list,
         NEW f \in {"list", "fis", "tables"}, NEW k \in {"list", "fis", "tables"}
  PROVE  Units(h)[f] \cap Units(g)[k] = {}
<1> DEFINE list == hba[h].list
           gap == hba[h].gap
           end == End(hba[h])
           next == hba[g].list
           skip == hba[g].gap
<1>1. /\ list \in Nat /\ gap \in {1, 2} /\ next \in Nat /\ skip \in {1, 2} /\ end <= next
      /\ end = list + (2 + Slots) * gap /\ Slots \in Nat
  BY AhciAssumption DEF Placed, End
<1>2. end \in Nat /\ list + 2 * gap <= end
  <2>1. CASE gap = 1
    BY <1>1, <2>1
  <2>2. CASE gap = 2
    BY <1>1, <2>2
  <2> QED
    BY <1>1, <2>1, <2>2
<1> DEFINE a == list * PageUnits
           b == (list + gap) * PageUnits
           e == end * PageUnits
           s == next * PageUnits
           t == (next + skip) * PageUnits
           w == (next + 2 * skip) * PageUnits
           n == PageUnits \div 4
<1>3. /\ PageUnits \in Nat /\ n \in Nat /\ n < PageUnits
      /\ a \in Nat /\ b \in Nat /\ e \in Nat /\ s \in Nat /\ t \in Nat /\ w \in Nat
      /\ a + PageUnits <= b /\ b + PageUnits <= e /\ s + PageUnits <= t /\ t + PageUnits <= w
  <2>1. PageUnits \in Nat /\ n \in Nat /\ n < PageUnits
    BY AhciAssumption
  <2>2. /\ list < list + gap /\ list + gap < end /\ list + gap \in Nat
        /\ next < next + skip /\ next + skip < next + 2 * skip
        /\ next + skip \in Nat /\ next + 2 * skip \in Nat
    BY <1>1, <1>2
  <2> QED
    BY <1>1, <1>2, <2>1, <2>2, PagesApart
<1>4. s = e \/ e + PageUnits <= s
  <2>1. CASE end = next
    BY <2>1
  <2>2. CASE end < next
    BY <1>1, <1>2, <2>2, PagesApart
  <2> QED
    BY <1>1, <1>2, <2>1, <2>2
<1>5. \A x \in Units(h)[f] : x \in Nat /\ (x < a + n \/ x = b \/ x < e \/ x = e + PageUnits - 1)
  BY UnitsLie
<1>6. \A x \in Units(g)[k] : x \in Nat /\ ((s <= x /\ x < s + n) \/ x = t \/ w <= x)
  BY UnitsLie
<1> HIDE DEF a, b, e, s, t, w, n
<1>7. \A x \in Units(h)[f] : x \in Nat /\ (x < e \/ x = e + PageUnits - 1)
  BY <1>3, <1>5
<1>8. \A x \in Units(g)[k] : x # e + PageUnits - 1 /\ ~(x < e)
  BY <1>3, <1>4, <1>6
<1> QED
  BY <1>7, <1>8

\* A step that moves no memory keeps where it lies.
LEMMA PagesStay ==
  ASSUME PagesInv, Hw' = Hw, pages' = pages, \A g \in Hw : SameMemory(hba[g], hba'[g])
  PROVE  PagesInv'
<1>1. SetUps' = SetUps /\ SetUps \subseteq Hw
  BY DEF SetUps, SameMemory
<1>2. \A g \in SetUps : /\ Placed(hba'[g]) <=> Placed(hba[g])
                        /\ End(hba'[g]) = End(hba[g]) /\ hba'[g].list = hba[g].list
  BY <1>1 DEF Placed, End, SameMemory
<1> QED
  BY <1>1, <1>2 DEF PagesInv

\* A port set up again, or for the first time, gets pages above all others.
LEMMA PagesSetUp == IInv /\ ObjectsInv /\ PagesInv /\ SetUp => PagesInv'
<1> SUFFICES ASSUME IInv, ObjectsInv, PagesInv, SetUp PROVE PagesInv'
  OBVIOUS
<1>1. Here \in Hw /\ Hw' = Hw /\ \A g \in Hw \ {Here} : hba'[g] = hba[g]
  BY SetUpWrites
<1>2. PICK gap \in {1, 2} :
        /\ hba'[Here].list = pages /\ hba'[Here].fis = pages + gap
        /\ hba'[Here].tables = pages + 2 * gap /\ hba'[Here].gap = gap
        /\ pages' = pages + (2 + Slots) * gap
  BY SetUpWrites
<1>3. pages \in Nat \ {0} /\ Slots \in Nat
  BY AhciAssumption DEF PagesInv
<1>4. Placed(hba'[Here]) /\ End(hba'[Here]) = pages'
  BY <1>2, <1>3 DEF Placed, End
<1>5. pages' \in Nat \ {0} /\ pages <= pages'
  <2>1. CASE gap = 1
    BY <1>2, <1>3, <2>1
  <2>2. CASE gap = 2
    BY <1>2, <1>3, <2>2
  <2> QED
    BY <2>1, <2>2
<1>6. SetUps' = SetUps \cup {Here} /\ SetUps \subseteq Hw
  BY <1>1, <1>2, <1>3 DEF SetUps
<1>7. \A h \in SetUps : End(hba[h]) \in Nat
  <2> SUFFICES ASSUME NEW h \in SetUps PROVE End(hba[h]) \in Nat
    OBVIOUS
  <2>1. hba[h].list \in Nat /\ hba[h].gap \in {1, 2}
    BY DEF PagesInv, Placed
  <2> QED
    BY <1>3, <2>1 DEF End
<1>8. \A h \in SetUps' \ {Here} : /\ h \in SetUps /\ Placed(hba'[h]) /\ hba'[h] = hba[h]
                                  /\ End(hba'[h]) <= pages
  BY <1>1, <1>6 DEF PagesInv
<1>9. \A h \in SetUps' : Placed(hba'[h]) /\ End(hba'[h]) <= pages'
  <2>1. \A h \in SetUps' \ {Here} : End(hba'[h]) <= pages'
    BY <1>3, <1>5, <1>7, <1>8
  <2> QED
    BY <1>4, <1>5, <1>8, <2>1
<1>10. ASSUME NEW h \in SetUps', NEW g \in SetUps', h # g
       PROVE  End(hba'[h]) <= hba'[g].list \/ End(hba'[g]) <= hba'[h].list
  <2>1. CASE h = Here
    BY <1>2, <1>8, <1>10, <2>1
  <2>2. CASE g = Here
    BY <1>2, <1>8, <1>10, <2>2
  <2>3. CASE h # Here /\ g # Here
    BY <1>8, <1>10, <2>3 DEF PagesInv
  <2> QED
    BY <2>1, <2>2, <2>3
<1>11. PagesInv' <=>
         /\ pages' \in Nat \ {0}
         /\ \A h \in SetUps' : Placed(hba'[h]) /\ End(hba'[h]) <= pages'
         /\ \A h, g \in SetUps' : h # g => End(hba'[h]) <= hba'[g].list \/ End(hba'[g]) <= hba'[h].list
  BY DEF PagesInv, Placed, End
<1> QED
  BY <1>5, <1>9, <1>10, <1>11

\* Every step keeps where the memory of the ports lies.
LEMMA PagesSteps ==
  ASSUME IInv, ObjectsInv, PagesInv, [Next]_vars
  PROVE  PagesInv'
<1>1. CASE DeviceStep
  BY <1>1, DeviceLeaves, DeviceMoves, SamePort, PagesStay DEF ByDevice, SameMemory
<1>2. CASE Bits
  BY <1>2, BitsWrite, PagesStay
<1>3. CASE SetUp
  BY <1>3, PagesSetUp
<1>4. CASE Issue
  BY <1>4, IssueWrites, PagesStay
<1>5. CASE Unwritten \/ \E n \in 0 .. PortCount - 1 : Command(n)
  <2>1. UNCHANGED <<hba, machine, pages>>
    BY <1>5 DEF Unwritten, Probe, NextPort, NextController, StopWait, StopWaitCr, StartWait, Fill,
      Spin, SpinEnds, PollIssue, PollStatus, Configuring, Issuing, At, vars, ahciVars, Command
  <2> QED
    BY <2>1, PagesStay DEF Hw, SameMemory
<1> QED
  BY <1>1, <1>2, <1>3, <1>4, <1>5, Kinds

\* No two structures the device reads or writes, of one port or of several, share
\* memory, however the pages were given out and although the command tables run
\* over the end of the pages requested for them.
THEOREM StructuresStayApart == Spec => []StructuresApart
<1>1. Init => PagesInv
  <2> SUFFICES ASSUME Init PROVE PagesInv
    OBVIOUS
  <2>1. hba \in [Hw -> FirmwarePorts] /\ pages = 1
    BY LeftByFirmware DEF Init
  <2>2. SetUps = {}
    BY <2>1 DEF SetUps, FirmwarePorts
  <2> QED
    BY <2>1, <2>2 DEF PagesInv
<1>2. IInv /\ ObjectsInv /\ PagesInv /\ [Next]_vars => PagesInv'
  BY PagesSteps
<1>3. PagesInv => StructuresApart
  <2> SUFFICES ASSUME PagesInv, NEW h \in SetUps, NEW g \in SetUps,
                      NEW f \in {"list", "fis", "tables"}, NEW k \in {"list", "fis", "tables"},
                      <<h, f>> # <<g, k>>
               PROVE  Units(h)[f] \cap Units(g)[k] = {}
    BY DEF StructuresApart
  <2>1. h \in Hw /\ g \in Hw /\ Placed(hba[h]) /\ Placed(hba[g])
    BY DEF PagesInv, SetUps
  <2>2. CASE h = g
    BY <2>1, <2>2, ApartWithin
  <2>3. CASE h # g
    <3>1. End(hba[h]) <= hba[g].list \/ End(hba[g]) <= hba[h].list
      BY <2>3 DEF PagesInv
    <3> QED
      BY <2>1, <3>1, ApartBetween
  <2> QED
    BY <2>2, <2>3
<1> QED
  BY <1>1, <1>2, <1>3, Invariance, ObjectsAlways, PTL DEF Spec
=============================================================================
