---------------------------- MODULE PostedMemory ----------------------------
(***************************************************************************)
(* What the simulated device may assume when it accesses host memory and   *)
(* raises interrupts through the bridge.  A write is acknowledged when it  *)
(* is posted, not when it is done; but writes, reads and interrupts are    *)
(* done in the order in which they were posted, each once and whole, and a *)
(* read returns what host memory held when it was done.  DmaPath, the      *)
(* bridge itself, is shown to implement this.                              *)
(***************************************************************************)
EXTENDS Naturals, Sequences

CONSTANTS
  Addr,    \* the words of host memory, one per beat of a burst
  Data,    \* what a word can hold
  Burst,   \* the writes the device makes: [addr, data], data a sequence
  Span,    \* the reads it makes: [addr, len], that is len + 1 words
  Vector   \* MSI-X vectors

VARIABLES
  wr,      \* the device's write: idle, busy, or sent and not acknowledged
  rd,      \* its read: idle, busy, sent or answered, and what it got
  posted,  \* what has been posted and not done
  host,    \* host memory
  msix,    \* vectors notified to the guest and not yet taken by it
  acked,   \* how many writes have been acknowledged to the device
  landed   \* how many writes are in host memory

vars == <<wr, rd, posted, host, msix, acked, landed>>

(* Host memory after a write, and the words a read gets. *)
Store(mem, b) == [a \in Addr |-> IF a \in b.addr .. (b.addr + Len(b.data) - 1)
                                 THEN b.data[a - b.addr + 1] ELSE mem[a]]
Load(mem, s)  == [i \in 1..(s.len + 1) |-> mem[s.addr + i - 1]]

(* A posted operation.  after is the number of writes that had been        *)
(* acknowledged to the device when it was posted.                          *)
WriteOp(b) == [op |-> "WRITE", burst |-> b]
ReadOp(s)  == [op |-> "READ", span |-> s, after |-> acked]
IntrOp(v)  == [op |-> "INTR", vector |-> v, after |-> acked]

Init ==
  /\ wr \in [pc : {"idle"}, burst : Burst]
  /\ rd \in [pc : {"idle"}, span : Span, data : {<<>>}]
  /\ posted = <<>>
  /\ host \in [Addr -> Data]
  /\ msix = {}
  /\ acked = 0 /\ landed = 0

StartWrite(b) ==
  /\ wr.pc = "idle"
  /\ wr' = [pc |-> "busy", burst |-> b]
  /\ UNCHANGED <<rd, posted, host, msix, acked, landed>>

StartRead(s) ==
  /\ rd.pc = "idle"
  /\ rd' = [pc |-> "busy", span |-> s, data |-> <<>>]
  /\ UNCHANGED <<wr, posted, host, msix, acked, landed>>

(* The bridge moves the write and the read, which are independent of each  *)
(* other, one step each or not at all: it posts what has been started,     *)
(* acknowledges the write it has posted, returns the answer to the read.   *)
Moved(step, pc) == IF step = "stay" THEN pc
                   ELSE IF step = "post" THEN "sent" ELSE "idle"
Cycle ==
  \E w \in {"stay", "post", "ack"}, r \in {"stay", "post", "end"} :
    /\ w = "post" => wr.pc = "busy"
    /\ w = "ack"  => wr.pc = "sent"
    /\ r = "post" => rd.pc = "busy"
    /\ r = "end"  => rd.pc = "answered"
    /\ wr' = [wr EXCEPT !.pc = Moved(w, @)]
    /\ rd' = [rd EXCEPT !.pc = Moved(r, @)]
    /\ acked' = IF w = "ack" THEN acked + 1 ELSE acked
    /\ LET W == IF w = "post" THEN <<WriteOp(wr.burst)>> ELSE <<>>
           R == IF r = "post" THEN <<ReadOp(rd.span)>> ELSE <<>>
       IN  posted' \in {posted \o W \o R, posted \o R \o W}
    /\ UNCHANGED <<host, msix, landed>>

Interrupt(v) ==
  /\ posted' = Append(posted, IntrOp(v))
  /\ UNCHANGED <<wr, rd, host, msix, acked, landed>>

(* The host does what was posted first. *)
Do ==
  /\ posted # <<>>
  /\ posted' = Tail(posted)
  /\ LET p == Head(posted) IN
     \/ /\ p.op = "WRITE"
        /\ host' = Store(host, p.burst)
        /\ landed' = landed + 1
        /\ UNCHANGED <<rd, msix>>
     \/ /\ p.op = "READ"
        /\ rd' = [pc |-> "answered", span |-> rd.span, data |-> Load(host, p.span)]
        /\ UNCHANGED <<host, msix, landed>>
     \/ /\ p.op = "INTR"
        /\ msix' = msix \cup {p.vector}
        /\ UNCHANGED <<rd, host, landed>>
  /\ UNCHANGED <<wr, acked>>

(* The guest uses its memory and takes its interrupts. *)
GuestStore(a, v) ==
  /\ host' = [host EXCEPT ![a] = v]
  /\ UNCHANGED <<wr, rd, posted, msix, acked, landed>>

GuestTakes(v) ==
  /\ v \in msix
  /\ msix' = msix \ {v}
  /\ UNCHANGED <<wr, rd, posted, host, acked, landed>>

Next ==
  \/ \E b \in Burst : StartWrite(b)
  \/ \E s \in Span : StartRead(s)
  \/ Cycle
  \/ \E v \in Vector : Interrupt(v)
  \/ Do
  \/ \E a \in Addr, v \in Data : GuestStore(a, v)
  \/ \E v \in Vector : GuestTakes(v)

Spec == Init /\ [][Next]_vars
=============================================================================
