----------------------------- MODULE MmioMemory -----------------------------
(***************************************************************************)
(* What the guest may assume of an access to a BAR of accelerator-pcie,    *)
(* whatever lies between QEMU and the simulated device: one access at a    *)
(* time, performed exactly once and at one instant between its call and    *)
(* its return, a read returning the value its own register had at that     *)
(* instant.  MmioPath, the bridge itself, is shown to implement this.      *)
(***************************************************************************)

CONSTANTS
  Bar, Off,   \* BAR numbers, and offsets in a BAR
  Register,   \* bus addresses of the device's registers
  Data, Zero, \* what a register can hold, and its value after reset
  BusAddr(_, _) \* the register behind an offset in a BAR

VARIABLES
  guest,    \* the access a vCPU is making, or the last one it made
  mem,      \* the device's registers
  done,     \* the access in progress has been performed
  res       \* the value it got

vars == <<guest, mem, done, res>>

Op == {"READ", "WRITE"}

Init ==
  /\ guest \in [pc : {"run"}, op : Op, bar : Bar, off : Off, val : Data]
  /\ mem = [a \in Register |-> Zero]
  /\ done = FALSE
  /\ res = Zero

(* The guest executes a load or a store that falls into a BAR. *)
Invoke(op, b, o, v) ==
  /\ guest.pc = "run"
  /\ guest' = [pc |-> "wait", op |-> op, bar |-> b, off |-> o, val |-> v]
  /\ UNCHANGED <<mem, done, res>>

(* The access takes effect.  The result of a write is ignored. *)
Perform ==
  /\ guest.pc = "wait" /\ ~ done
  /\ done' = TRUE
  /\ \/ /\ guest.op = "READ"
        /\ res' = mem[BusAddr(guest.bar, guest.off)]
        /\ mem' = mem
     \/ /\ guest.op = "WRITE"
        /\ res' \in Data
        /\ mem' = [mem EXCEPT ![BusAddr(guest.bar, guest.off)] = guest.val]
  /\ UNCHANGED guest

(* The vCPU goes on; after a read it holds the value read. *)
Return ==
  /\ guest.pc = "wait" /\ done
  /\ guest' = [pc |-> "run", op |-> guest.op, bar |-> guest.bar, off |-> guest.off,
               val |-> IF guest.op = "READ" THEN res ELSE guest.val]
  /\ done' = FALSE
  /\ res' = Zero
  /\ UNCHANGED mem

(* The device changes one of its registers by itself. *)
DeviceStep(a, v) ==
  /\ mem' = [mem EXCEPT ![a] = v]
  /\ UNCHANGED <<guest, done, res>>

Next ==
  \/ \E op \in Op, b \in Bar, o \in Off, v \in Data : Invoke(op, b, o, v)
  \/ Perform
  \/ Return
  \/ \E a \in Register, v \in Data : DeviceStep(a, v)

Spec == Init /\ [][Next]_vars
=============================================================================
