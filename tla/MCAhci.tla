------------------------------- MODULE MCAhci -------------------------------
(***************************************************************************)
(* One port left in any state; one controller with up to three drives; or *)
(* two controllers with one each.  There are ports without a drive, powered*)
(* down, or of another kind.  Pages of 4 units and 8 slots, so half the    *)
(* command tables leave their page.                                        *)
(***************************************************************************)
EXTENDS Ahci, TLC

\* What the firmware left: the engines off, running, or in any state, with commands
\* issued or none.
AnyLeft ==
  {p \in [st : BOOLEAN, fre : BOOLEAN, cr : BOOLEAN, fr : BOOLEAN, list : {0}, fis : {0},
          tables : {0}, gap : {1}, ci : {{}, {0, 3}}, tfes : BOOLEAN, busy : BOOLEAN] :
     p.ci # {} => p.st}
Left(on) ==
  [st |-> on, fre |-> on, cr |-> on, fr |-> on, list |-> 0, fis |-> 0, tables |-> 0, gap |-> 1,
   ci |-> {}, tfes |-> FALSE, busy |-> FALSE]
Off == Left(FALSE)
Running == Left(TRUE)

Attached(d, ipm, sig, left) == [detection |-> d, ipm |-> ipm, signature |-> sig, left |-> left]
Disk(left) == Attached("present", "active", "sata", left)
Optical(left) == Attached("present", "active", "sata_pi", left)
Asleep == Attached("present", "partial", "sata", Off)
Absent == Attached("absent", "none", "none", Off)
Unknown == Attached("present", "active", "other", Off)

MCMachines ==
  {<<1 :> Disk(left)>> : left \in AnyLeft}
  \cup {<<0 :> Disk(a) @@ 1 :> Absent @@ 2 :> Optical(b)>> : a, b \in {Off, Running}}
  \cup {<<0 :> Asleep @@ 1 :> Disk(Running) @@ 2 :> Unknown>>}
  \cup {<<0 :> Disk(Off) @@ 1 :> Disk(a) @@ 2 :> Disk(a)>> : a \in {Off, Running}}
  \cup {<<1 :> Disk(a), 0 :> Disk(b)>> : a \in {Off, [Running EXCEPT !.ci = {1}]}, b \in {Off, Running}}
=============================================================================
