--------------------------- MODULE SessionProofs ----------------------------
(* Theorems about Session, for any number of restarts of either program. *)
EXTENDS Session, TLAPS

-----------------------------------------------------------------------------
(* Type correctness *)

(* acc_init_msix uses vectors the configuration has, and opens the sockets *)
(* of the device or leaves none open.                                      *)
LEMMA RealizeType ==
  ASSUME TypeOK, acc_pcie_realize
  PROVE  /\ qemu' \in {"realized", "down", "aborted"}
         /\ socks' \subseteq Realized /\ msix' \subseteq 0..VecNum
         /\ (qemu' = "realized" => socks' = Realized)
         /\ (qemu' # "realized" => socks' = {})
<1>1. acc_use_msix_vectors \subseteq 0..VecNum
  BY SessionConstants DEF acc_use_msix_vectors
<1> QED
  BY <1>1 DEF acc_pcie_realize, acc_init_msix

(* A step of either program keeps the state in its shape: no count of      *)
(* frames falls below zero, as each receive waits for a frame.             *)
LEMMA TypeStep == TypeOK /\ [Next]_vars => TypeOK'
<1> SUFFICES ASSUME TypeOK, [Next]_vars PROVE TypeOK'
  OBVIOUS
<1> USE SessionConstants DEF TypeOK
<1>1. CASE StartQemu
  BY <1>1 DEF StartQemu
<1>2. CASE class_init_send
  BY <1>2 DEF class_init_send
<1>3. CASE class_init_recv
  BY <1>3 DEF class_init_recv
<1>4. CASE acc_pcie_realize
  BY <1>4, RealizeType DEF acc_pcie_realize
<1>5. CASE acc_pcie_exit
  BY <1>5 DEF acc_pcie_exit
<1>6. CASE mmio_send
  BY <1>6 DEF mmio_send
<1>7. CASE mmio_return
  BY <1>7 DEF mmio_return
<1>8. CASE StopQemu
  BY <1>8 DEF StopQemu
<1>9. CASE C_setup_pcie_connection
  BY <1>9 DEF C_setup_pcie_connection
<1>10. CASE C_teardown_pcie_connection
  BY <1>10 DEF C_teardown_pcie_connection
<1>11. CASE C_poll_init
  BY <1>11 DEF C_poll_init
<1>12. CASE C_poll_req
  BY <1>12 DEF C_poll_req
<1>13. CASE C_resp
  BY <1>13 DEF C_resp
<1>14. CASE C_req
  BY <1>14 DEF C_req
<1>15. CASE Sent
  BY <1>15 DEF Sent
<1>16. CASE UNCHANGED vars
  BY <1>16 DEF vars
<1> QED
  BY <1>1, <1>2, <1>3, <1>4, <1>5, <1>6, <1>7, <1>8, <1>9, <1>10, <1>11,
     <1>12, <1>13, <1>14, <1>15, <1>16 DEF Next

(* The state of both programs keeps its shape, however they are ended and  *)
(* started and whatever the device sends.                                  *)
THEOREM TypeCorrect == Spec => []TypeOK
<1>1. Init => TypeOK
  BY SessionConstants DEF Init, TypeOK
<1> QED
  BY <1>1, TypeStep, PTL DEF Spec

-----------------------------------------------------------------------------
(* What is on its way belongs to the QEMU and the simulator that run       *)

(* Programs that end when they are idle, and a device that sends nothing   *)
(* unless a driver has it at work.                                         *)
Orderly == CleanStops /\ Talks # "free"

(* An access is made, and a request is sent, only while the device is      *)
(* realized, and then all its sockets are open.                            *)
Attached ==
  /\ qemu = "realized" => socks = Realized
  /\ guest = "wait" => qemu = "realized"
  /\ hdl = "send_req" => qemu = "realized"

SessionInv == TypeOK /\ NothingLeftOver /\ Attached

(* When nobody waits for a configuration or a response, none is on its way:*)
(* whatever the simulator is doing, it neither has one nor sends one.      *)
LEMMA NothingUnderWay ==
  ASSUME SessionInv
  PROVE  /\ qemu # "init_wait" => /\ initsock = 0 /\ initsock2 = 0
                                  /\ hdl # "send_conf"
         /\ guest = "run" => /\ qemu_req = 0 /\ access = 0 /\ qemu_resp = 0
                             /\ hdl # "send_resp"
BY DEF SessionInv, TypeOK, NothingLeftOver

(* Steps of QEMU.  It ends, and its device is unplugged, with nothing on   *)
(* its way.                                                                *)
LEMMA QemuStep ==
  ASSUME Orderly, SessionInv,
         \/ StartQemu \/ class_init_send \/ class_init_recv \/ acc_pcie_realize
         \/ acc_pcie_exit \/ mmio_send \/ mmio_return \/ StopQemu
  PROVE  NothingLeftOver' /\ Attached'
<1> USE NothingUnderWay DEF SessionInv, TypeOK, NothingLeftOver, Attached
<1>1. CASE StartQemu
  BY <1>1 DEF StartQemu
<1>2. CASE class_init_send
  BY <1>2 DEF class_init_send
<1>3. CASE class_init_recv
  BY <1>3 DEF class_init_recv
<1>4. CASE acc_pcie_realize
  BY <1>4, RealizeType DEF acc_pcie_realize
<1>5. CASE acc_pcie_exit
  BY <1>5 DEF acc_pcie_exit, Orderly, Idle
<1>6. CASE mmio_send
  BY <1>6 DEF mmio_send
<1>7. CASE mmio_return
  BY <1>7 DEF mmio_return
<1>8. CASE StopQemu
  BY <1>8 DEF StopQemu, Orderly, Idle
<1> QED
  BY <1>1, <1>2, <1>3, <1>4, <1>5, <1>6, <1>7, <1>8

(* Steps of the simulator.  C_poll and C_resp pass on what they take, once.*)
LEMMA HdlStep ==
  ASSUME Orderly, SessionInv,
         \/ C_setup_pcie_connection \/ C_teardown_pcie_connection
         \/ C_poll_init \/ C_poll_req \/ C_resp \/ C_req \/ Sent
  PROVE  NothingLeftOver' /\ Attached'
<1> USE NothingUnderWay DEF SessionInv, TypeOK, NothingLeftOver, Attached
<1>1. CASE C_setup_pcie_connection
  BY <1>1 DEF C_setup_pcie_connection
<1>2. CASE C_teardown_pcie_connection
  BY <1>2 DEF C_teardown_pcie_connection, Orderly, Idle
<1>3. CASE C_poll_init
  BY <1>3 DEF C_poll_init
<1>4. CASE C_poll_req
  BY <1>4 DEF C_poll_req
<1>5. CASE C_resp
  BY <1>5 DEF C_resp
<1>6. CASE C_req
  BY <1>6, SessionConstants DEF C_req, Orderly
<1>7. CASE Sent
  BY <1>7 DEF Sent
<1> QED
  BY <1>1, <1>2, <1>3, <1>4, <1>5, <1>6, <1>7

(* SessionInv is inductive. *)
LEMMA SessionInvariant == Orderly => (Spec => []SessionInv)
<1> SUFFICES ASSUME Orderly PROVE Spec => []SessionInv
  OBVIOUS
<1>1. Init => SessionInv
  BY SessionConstants DEF Init, SessionInv, TypeOK, NothingLeftOver, Attached
<1>2. SessionInv /\ [Next]_vars => SessionInv'
  <2> SUFFICES ASSUME SessionInv, [Next]_vars PROVE SessionInv'
    OBVIOUS
  <2>1. TypeOK'
    BY TypeStep DEF SessionInv
  <2>2. CASE UNCHANGED vars
    BY <2>1, <2>2 DEF SessionInv, NothingLeftOver, Attached, vars
  <2>3. CASE Next
    BY <2>1, <2>3, QemuStep, HdlStep DEF Next, SessionInv
  <2> QED
    BY <2>2, <2>3
<1> QED
  BY <1>1, <1>2, PTL DEF Spec

(* Each INIT gets one configuration and each access one response, over any *)
(* number of restarts of QEMU and of the simulator: what class_init and    *)
(* mmio_read_bar receive, without comparing an id, is their own answer.    *)
THEOREM NothingIsLeftOver == Orderly => (Spec => []NothingLeftOver)
<1> SUFFICES ASSUME Orderly PROVE Spec => []NothingLeftOver
  OBVIOUS
<1>1. SessionInv => NothingLeftOver
  BY DEF SessionInv
<1> QED
  BY <1>1, SessionInvariant, PTL

(* The one thread of the simulator never enters a send that nobody is      *)
(* there to receive: not in C_poll, nor C_resp, nor C_req.                 *)
THEOREM SendsAlwaysArrive == Orderly => (Spec => []SendsArrive)
<1> SUFFICES ASSUME Orderly PROVE Spec => []SendsArrive
  OBVIOUS
<1>1. SessionInv => SendsArrive
  BY NothingUnderWay DEF SessionInv, Attached, TypeOK, SendsArrive, Peer, Realized
<1> QED
  BY <1>1, SessionInvariant, PTL

-----------------------------------------------------------------------------
(* The ports are free when acc_pcie_realize binds them                     *)

(* Without plugging in again, a QEMU that has not realized the device yet  *)
(* has no socket of it open.                                               *)
PortsFree ==
  /\ qemu # "aborted"
  /\ qemu \in {"down", "init_send", "init_wait", "unrealized"} => socks = {}

(* The assertions in acc_pcie_realize hold, however the programs are ended *)
(* and started, as long as an unplugged device stays unplugged.            *)
THEOREM SocketsAlwaysOpen == ~Replugs => (Spec => []SocketsOpen)
<1> SUFFICES ASSUME ~Replugs PROVE Spec => []SocketsOpen
  OBVIOUS
<1>1. Init => PortsFree
  BY DEF Init, PortsFree
<1>2. TypeOK /\ PortsFree /\ [Next]_vars => PortsFree'
  <2> SUFFICES ASSUME TypeOK, PortsFree, [Next]_vars PROVE PortsFree'
    OBVIOUS
  <2>1. CASE acc_pcie_realize
    BY <2>1, RealizeType DEF PortsFree, acc_pcie_realize, acc_init_msix
  <2>2. CASE StartQemu \/ class_init_send \/ class_init_recv \/ acc_pcie_exit \/ StopQemu
    BY <2>2 DEF PortsFree, StartQemu, class_init_send, class_init_recv,
                acc_pcie_exit, StopQemu
  <2>3. CASE UNCHANGED <<qemu, socks>>
    BY <2>3 DEF PortsFree
  <2> QED
    BY <2>1, <2>2, <2>3 DEF Next, vars, mmio_send, mmio_return,
       C_setup_pcie_connection, C_teardown_pcie_connection, C_poll_init,
       C_poll_req, C_resp, C_req, Sent
<1>3. PortsFree => SocketsOpen
  BY DEF PortsFree, SocketsOpen
<1> QED
  BY <1>1, <1>2, <1>3, TypeCorrect, PTL DEF Spec
=============================================================================
