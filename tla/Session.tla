------------------------------ MODULE Session -------------------------------
(***************************************************************************)
(* How QEMU and the HDL simulator find each other, and what becomes of it  *)
(* when QEMU ends and is started again, or the device is unplugged and     *)
(* plugged in again:                                                       *)
(*                                                                         *)
(*   acc_pcie_class_init   sends INIT, waits for the configuration         *)
(*   acc_pcie_realize      opens the eight sockets of the device, and MSI-X*)
(*   acc_pcie_exit         closes six of them                              *)
(*   C_poll                answers INIT before anything else               *)
(*                                                                         *)
(* ZeroMQ (external): every PUSH socket binds and every PULL socket        *)
(* connects; a send blocks while no PULL socket is connected; what has     *)
(* reached the PULL socket of a live process stays there.  The simulator   *)
(* is one thread: while C_poll, C_resp_* or C_req_* is blocked in a send   *)
(* its clock stands still.  What an MMIO access does inside the HDL is     *)
(* MmioPath's; here it is one step.                                        *)
(***************************************************************************)
EXTENDS Naturals

CONSTANTS
  MaxStops,      \* bound: how often QEMU ends
  MaxTeardowns,  \* bound: how often the simulator ends
  MaxUnplugs,    \* bound: how often the device is unplugged
  CleanStops,    \* they end, and the device is unplugged, only when idle
  Replugs,       \* an unplugged device is plugged in again
  VecNum,        \* msix_vec_num of the configuration
  MsixInit,      \* what msix_init may make of it: ok, fails
  Talks          \* when the device sends requests: never, driven, free

ASSUME SessionConstants ==
  /\ MaxStops \in Nat /\ MaxTeardowns \in Nat /\ MaxUnplugs \in Nat
  /\ CleanStops \in BOOLEAN /\ Replugs \in BOOLEAN
  /\ VecNum \in Nat /\ MsixInit \subseteq {"ok", "fails"}
  /\ Talks \in {"never", "driven", "free"}

VARIABLES
  qemu,       \* down, init_send, init_wait, unrealized, realized,
              \* unplugged or aborted
  socks,      \* the sockets QEMU has open
  msix,       \* the MSI-X vectors in use
  guest,      \* run, or wait: in mmio_read_bar or mmio_write_bar
  hdl,        \* down, run, or blocked in a send: send_conf, send_resp, send_req
  initsock, qemu_req,    \* frames in the PULL sockets of HDL
  initsock2, qemu_resp,  \* frames in the PULL sockets of QEMU
  access,     \* MMIO accesses inside the HDL
  stops, teardowns, unplugs

vars == <<qemu, socks, msix, guest, hdl, initsock, qemu_req, initsock2,
          qemu_resp, access, stops, teardowns, unplugs>>

Realized == {"qemu_req", "qemu_resp", "hdl_req", "hdl_resp", "nic_req",
             "nic_resp", "serial_rx", "serial_tx"}
Bound    == {"qemu_req", "hdl_resp", "nic_req", "serial_rx"}  \* the PUSH ones

Init ==
  /\ qemu = "down" /\ socks = {} /\ msix = {} /\ guest = "run"
  /\ hdl = "down"
  /\ initsock = 0 /\ qemu_req = 0 /\ initsock2 = 0 /\ qemu_resp = 0
  /\ access = 0 /\ stops = 0 /\ teardowns = 0 /\ unplugs = 0

(* No handshake, no access and no request of the device is in progress. *)
Idle == /\ qemu \notin {"init_send", "init_wait"}
        /\ guest = "run"
        /\ hdl \in {"down", "run"}

-----------------------------------------------------------------------------
(* QEMU *)

StartQemu ==
  /\ qemu = "down"
  /\ qemu' = "init_send"
  /\ UNCHANGED <<socks, msix, guest, hdl, initsock, qemu_req, initsock2,
                 qemu_resp, access, stops, teardowns, unplugs>>

(* acc_pcie_class_init up to its receive: the send waits for the simulator.*)
class_init_send ==
  /\ qemu = "init_send" /\ hdl # "down"
  /\ qemu' = "init_wait"
  /\ initsock' = initsock + 1
  /\ UNCHANGED <<socks, msix, guest, hdl, qemu_req, initsock2, qemu_resp,
                 access, stops, teardowns, unplugs>>

(* The rest of it: any configuration will do, and both sockets are closed. *)
class_init_recv ==
  /\ qemu = "init_wait" /\ initsock2 > 0
  /\ qemu' = "unrealized"
  /\ initsock2' = 0
  /\ UNCHANGED <<socks, msix, guest, hdl, initsock, qemu_req, qemu_resp,
                 access, stops, teardowns, unplugs>>

(* acc_init_msix: a configuration msix_init does not take ends QEMU. *)
acc_use_msix_vectors == 0..(VecNum - 1)
acc_init_msix ==
  \/ /\ "ok" \in MsixInit
     /\ qemu' = "realized" /\ socks' = Realized
     /\ msix' = acc_use_msix_vectors
  \/ /\ "fails" \in MsixInit
     /\ qemu' = "down" /\ socks' = {} /\ msix' = {}

(* acc_pcie_realize.  A PUSH socket that is still open has its port: a     *)
(* second one cannot bind it, zsock_new_push returns NULL and the          *)
(* assertion fails.                                                        *)
acc_pcie_realize ==
  /\ qemu = "unrealized" \/ (qemu = "unplugged" /\ Replugs)
  /\ IF socks \cap Bound = {} THEN acc_init_msix
     ELSE qemu' = "aborted" /\ msix' = {} /\ socks' = {}
  /\ UNCHANGED <<guest, hdl, initsock, qemu_req, initsock2, qemu_resp,
                 access, stops, teardowns, unplugs>>

(* Unplugging; a vCPU that waits holds the lock this needs.  The serial    *)
(* sockets stay open.  Responses in a closed socket are lost.              *)
acc_pcie_exit ==
  /\ qemu = "realized" /\ guest = "run" /\ unplugs < MaxUnplugs
  /\ CleanStops => Idle
  /\ qemu' = "unplugged" /\ unplugs' = unplugs + 1
  /\ msix' = {}
  /\ socks' = socks \ {"hdl_req", "hdl_resp", "qemu_req", "qemu_resp",
                       "nic_req", "nic_resp"}
  /\ qemu_resp' = 0
  /\ UNCHANGED <<guest, hdl, initsock, qemu_req, initsock2, access, stops,
                 teardowns>>

mmio_send ==
  /\ qemu = "realized" /\ guest = "run" /\ hdl # "down"
  /\ guest' = "wait" /\ qemu_req' = qemu_req + 1
  /\ UNCHANGED <<qemu, socks, msix, hdl, initsock, initsock2, qemu_resp,
                 access, stops, teardowns, unplugs>>

mmio_return ==
  /\ guest = "wait" /\ qemu_resp > 0
  /\ guest' = "run" /\ qemu_resp' = qemu_resp - 1
  /\ UNCHANGED <<qemu, socks, msix, hdl, initsock, qemu_req, initsock2,
                 access, stops, teardowns, unplugs>>

(* QEMU is ended, by its user or by a signal: its sockets and what is in   *)
(* them are gone, what it has sent is not.                                 *)
StopQemu ==
  /\ qemu \notin {"down", "aborted"} /\ stops < MaxStops
  /\ CleanStops => Idle
  /\ qemu' = "down" /\ stops' = stops + 1
  /\ socks' = {} /\ msix' = {} /\ guest' = "run"
  /\ initsock2' = 0 /\ qemu_resp' = 0
  /\ UNCHANGED <<hdl, initsock, qemu_req, access, teardowns, unplugs>>

-----------------------------------------------------------------------------
(* HDL *)

C_setup_pcie_connection ==
  /\ hdl = "down"
  /\ hdl' = "run"
  /\ UNCHANGED <<qemu, socks, msix, guest, initsock, qemu_req, initsock2,
                 qemu_resp, access, stops, teardowns, unplugs>>

(* The simulator ends, C_teardown_pcie_connection at its exit: what it had *)
(* received is lost with its sockets.  QEMU keeps running.                 *)
C_teardown_pcie_connection ==
  /\ hdl # "down" /\ teardowns < MaxTeardowns
  /\ CleanStops => Idle
  /\ hdl' = "down" /\ teardowns' = teardowns + 1
  /\ initsock' = 0 /\ qemu_req' = 0 /\ access' = 0
  /\ UNCHANGED <<qemu, socks, msix, guest, initsock2, qemu_resp, stops,
                 unplugs>>

C_poll_initAny ==
  /\ hdl = "run"
  /\ hdl' = "send_conf" /\ initsock' = initsock - 1
  /\ UNCHANGED <<qemu, socks, msix, guest, qemu_req, initsock2, qemu_resp,
                 access, stops, teardowns, unplugs>>

C_poll_initSilent ==
  /\ hdl = "run" /\ initsock > 0
  /\ initsock' = initsock - 1
  /\ UNCHANGED <<qemu, socks, msix, guest, hdl, qemu_req, initsock2,
                 qemu_resp, access, stops, teardowns, unplugs>>

C_poll_initPeek ==
  /\ hdl = "run" /\ initsock > 0
  /\ hdl' = "send_conf"
  /\ UNCHANGED <<qemu, socks, msix, guest, initsock, qemu_req, initsock2,
                 qemu_resp, access, stops, teardowns, unplugs>>

(* C_poll: INIT first, then a request. *)
C_poll_init ==
  /\ hdl = "run" /\ initsock > 0
  /\ hdl' = "send_conf" /\ initsock' = initsock - 1
  /\ UNCHANGED <<qemu, socks, msix, guest, qemu_req, initsock2, qemu_resp,
                 access, stops, teardowns, unplugs>>

C_poll_req ==
  /\ hdl = "run" /\ initsock = 0 /\ qemu_req > 0
  /\ qemu_req' = qemu_req - 1 /\ access' = access + 1
  /\ UNCHANGED <<qemu, socks, msix, guest, hdl, initsock, initsock2,
                 qemu_resp, stops, teardowns, unplugs>>

C_respAgain ==
  /\ hdl = "run" /\ access > 0
  /\ hdl' = "send_resp"
  /\ UNCHANGED <<qemu, socks, msix, guest, initsock, qemu_req, initsock2,
                 qemu_resp, access, stops, teardowns, unplugs>>

C_respSilent ==
  /\ hdl = "run" /\ access > 0
  /\ access' = access - 1
  /\ UNCHANGED <<qemu, socks, msix, guest, hdl, initsock, qemu_req,
                 initsock2, qemu_resp, stops, teardowns, unplugs>>

C_resp ==
  /\ hdl = "run" /\ access > 0
  /\ hdl' = "send_resp" /\ access' = access - 1
  /\ UNCHANGED <<qemu, socks, msix, guest, initsock, qemu_req, initsock2,
                 qemu_resp, stops, teardowns, unplugs>>

(* A request or an interrupt of the device; one that is driven sends them  *)
(* only while a driver in the guest has it at work.                        *)
C_req ==
  /\ hdl = "run"
  /\ Talks = "free" \/ (Talks = "driven" /\ qemu = "realized")
  /\ hdl' = "send_req"
  /\ UNCHANGED <<qemu, socks, msix, guest, initsock, qemu_req, initsock2,
                 qemu_resp, access, stops, teardowns, unplugs>>

(* The send goes through when QEMU has the socket at its other end. *)
Peer == CASE hdl = "send_conf" -> qemu = "init_wait"
          [] hdl = "send_resp" -> "qemu_resp" \in socks
          [] hdl = "send_req"  -> "hdl_req" \in socks
          [] hdl \in {"down", "run"} -> FALSE
Sent ==
  /\ Peer
  /\ hdl' = "run"
  /\ initsock2' = IF hdl = "send_conf" THEN initsock2 + 1 ELSE initsock2
  /\ qemu_resp' = IF hdl = "send_resp" THEN qemu_resp + 1 ELSE qemu_resp
  /\ UNCHANGED <<qemu, socks, msix, guest, initsock, qemu_req, access, stops,
                 teardowns, unplugs>>

-----------------------------------------------------------------------------
Next == \/ StartQemu \/ class_init_send \/ class_init_recv
        \/ acc_pcie_realize \/ acc_pcie_exit \/ mmio_send \/ mmio_return
        \/ StopQemu
        \/ C_setup_pcie_connection \/ C_teardown_pcie_connection
        \/ C_poll_init \/ C_poll_req \/ C_resp \/ C_req \/ Sent

Spec == Init /\ [][Next]_vars

(* Both programs run on; nobody has to end one, to unplug the device, to   *)
(* access it or to have it send.  The simulator polls, answers and sends   *)
(* requests in one thread, all of them at every clock edge: requests of    *)
(* the device cannot keep it from the others, hence the strong fairness.   *)
FairSpec ==
  /\ Spec
  /\ WF_vars(class_init_send) /\ WF_vars(class_init_recv)
  /\ WF_vars(acc_pcie_realize) /\ WF_vars(mmio_return)
  /\ WF_vars(C_setup_pcie_connection) /\ WF_vars(Sent)
  /\ SF_vars(C_poll_init) /\ SF_vars(C_poll_req) /\ SF_vars(C_resp)

-----------------------------------------------------------------------------
(* The state has its shape. *)
TypeOK ==
  /\ qemu \in {"down", "init_send", "init_wait", "unrealized", "realized",
               "unplugged", "aborted"}
  /\ socks \subseteq Realized /\ msix \subseteq 0..VecNum
  /\ guest \in {"run", "wait"}
  /\ hdl \in {"down", "run", "send_conf", "send_resp", "send_req"}
  /\ initsock \in Nat /\ qemu_req \in Nat
  /\ initsock2 \in Nat /\ qemu_resp \in Nat
  /\ access \in Nat /\ stops \in 0..MaxStops
  /\ teardowns \in 0..MaxTeardowns /\ unplugs \in 0..MaxUnplugs

(* The simulator never stands in a send that nobody is there to receive:   *)
(* its one thread would stop the clock of the whole design with it, and it *)
(* could not answer the next INIT (C_poll, C_resp_*, C_req_* of dpi-pcie.c *)
(* all send without a timeout).                                            *)
SendsArrive == hdl \in {"send_conf", "send_resp", "send_req"} => Peer

(* Each INIT gets one configuration, each access one response, across      *)
(* restarts of either program: nothing of an earlier QEMU or an earlier    *)
(* simulator is left anywhere to be taken for an answer by a later one     *)
(* (neither class_init nor mmio_read_bar compares an id).                  *)
NothingLeftOver ==
  /\ initsock + (IF hdl = "send_conf" THEN 1 ELSE 0) + initsock2
       = IF qemu = "init_wait" THEN 1 ELSE 0
  /\ qemu_req + access + (IF hdl = "send_resp" THEN 1 ELSE 0) + qemu_resp
       = IF guest = "wait" THEN 1 ELSE 0

(* A QEMU that sends INIT gets its configuration and realizes the device,  *)
(* unless it is ended first, whichever of the two programs was started     *)
(* first and however often they were started before.                       *)
Starts == (qemu \in {"init_send", "init_wait"}) ~> (qemu \in {"realized", "down"})

(* An access that was sent returns (mmio_read_bar and mmio_write_bar wait  *)
(* for their response without a timeout), after any number of restarts.    *)
Served == (guest = "wait") ~> (guest = "run")

(* The sockets of the device can be opened whenever it is plugged in (the  *)
(* assertions in acc_pcie_realize).                                        *)
SocketsOpen == qemu # "aborted"
=============================================================================
