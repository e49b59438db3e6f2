------------------------------- MODULE Driver -------------------------------
(***************************************************************************)
(* The kernel drivers (mvp/src/core/driver.h) around the gateway: the       *)
(* factory that tries FPGA, DPDK and software in this order, start(),       *)
(* poll(), stop() and the destructor.  The run loop ("main") makes, starts, *)
(* polls and destroys a driver; a second thread ("ctl") may call stop()     *)
(* while the loop polls or stops ("Safe to call from another thread").  The *)
(* gateway of the software driver is GatewayLifecycle's, reached through    *)
(* the forwarding functions of UringGateway.                                *)
(***************************************************************************)
EXTENDS GatewayLifecycle, Integers

CONSTANT MaxOrders    \* bound: orders ever received

ASSUME OrdersAssumption == MaxOrders \in Nat

VARIABLES at,         \* where the two threads are
          kind,       \* the driver in use, "none" before the factory returns
          drv,        \* its running_
          gw,         \* is gateway_ set?
          held,       \* what the drivers hold of the system: "fd", "bar", "eal", "port", "feed"
          orders,     \* the gateway's orders_received()
          seen,       \* stats_.rx_messages
          reported,   \* history: what the calls of poll() have added up to
          total       \* history: orders received by all gateways

countVars   == <<orders, seen, reported, total>>
driverVars  == <<at, kind, drv, gw, held, countVars>>
dvars == <<vars, driverVars>>

BothIdle == at.main = "idle" /\ at.ctl = "idle"
Go(t, pc) == at' = [at EXCEPT ![t] = pc]

DInit ==
    /\ Init
    /\ at = [t \in {"main", "ctl"} |-> IF t = "main" THEN "fpga" ELSE "idle"]
    /\ kind = "none"
    /\ drv = FALSE /\ gw = FALSE /\ held = {}
    /\ orders = 0 /\ seen = 0 /\ reported = 0 /\ total = 0

-----------------------------------------------------------------------------
(* make_best_available_driver().  A backend that was not built in, or whose *)
(* first call fails, gives way to the next.                                 *)
NextBackend ==
    \/ at.main = "fpga" /\ Go("main", "dpdk")
    \/ at.main = "dpdk" /\ Go("main", "software")

Unavailable ==
    /\ NextBackend
    /\ UNCHANGED <<vars, kind, drv, gw, held, countVars>>

(* FpgaDriver::start(): open(), fstat() and mmap(). *)
FpgaOpen ==
    /\ at.main = "fpga" /\ Go("main", "map")
    /\ held' = held \cup {"fd"}
    /\ UNCHANGED <<vars, kind, drv, gw, countVars>>

(* Mutant: the descriptor stays open when mmap() fails. *)
FpgaFails_KeepsFd ==
    /\ at.main = "map" /\ Go("main", "dpdk")
    /\ UNCHANGED <<vars, kind, drv, gw, held, countVars>>

FpgaFails ==
    /\ at.main = "map" /\ Go("main", "dpdk")
    /\ held' = held \ {"fd"}
    /\ UNCHANGED <<vars, kind, drv, gw, countVars>>

Made(k) == kind' = k /\ seen' = 0 /\ Go("main", "idle")

FpgaUp ==
    /\ at.main = "map" /\ Made("fpga")
    /\ held' = held \cup {"bar"} /\ drv' = TRUE
    /\ UNCHANGED <<vars, gw, orders, reported, total>>

(* DpdkDriver::start(): rte_eal_init() refuses a second time; what fails    *)
(* after it only clears running_, so the stop() of the destructor returns   *)
(* at once and the EAL stays.                                               *)
DpdkInit ==
    /\ at.main = "dpdk" /\ "eal" \notin held /\ Go("main", "port")
    /\ held' = held \cup {"eal"}
    /\ UNCHANGED <<vars, kind, drv, gw, countVars>>

DpdkFails ==
    /\ at.main = "port" /\ Go("main", "software")
    /\ UNCHANGED <<vars, kind, drv, gw, held, countVars>>

DpdkUp ==
    /\ at.main = "port" /\ Made("dpdk")
    /\ held' = held \cup {"port"} /\ drv' = TRUE
    /\ UNCHANGED <<vars, gw, orders, reported, total>>

(* The software driver is made without being started. *)
MakeSoftware ==
    /\ at.main = "software" /\ Made("software")
    /\ UNCHANGED <<vars, drv, gw, held, orders, reported, total>>

Factory ==
    \/ Unavailable \/ FpgaOpen \/ FpgaFails \/ FpgaUp
    \/ DpdkInit \/ DpdkFails \/ DpdkUp \/ MakeSoftware

-----------------------------------------------------------------------------
(* SoftwareDriver::start().  A driver that runs returns true at once. *)
StartCall ==
    /\ BothIdle /\ kind = "software" /\ ~drv
    /\ drv' = TRUE /\ Go("main", "feed")
    /\ UNCHANGED <<vars, kind, gw, held, countVars>>

(* feed_ is replaced by a new Feed, which open() may leave without socket:  *)
(* then feed_ is reset, and the driver serves orders without it.            *)
OpenFeed ==
    /\ at.main = "feed" /\ Go("main", "gateway")
    /\ \E up \in BOOLEAN : held' = (held \ {"feed"}) \cup (IF up THEN {"feed"} ELSE {})
    /\ UNCHANGED <<vars, kind, drv, gw, countVars>>

StartGateway ==
    /\ at.main = "gateway" /\ Go("main", "idle")
    /\ Start
    /\ gw' = TRUE /\ orders' = 0
    /\ UNCHANGED <<kind, drv, held, seen, reported, total>>

(* The gateway cannot listen: running_ is cleared, and the gateway that is  *)
(* down and the feed stay until the next start() or the destructor.         *)
GatewayFails ==
    /\ at.main = "gateway" /\ Go("main", "idle")
    /\ gw' = TRUE /\ orders' = 0 /\ drv' = FALSE
    /\ UNCHANGED <<vars, kind, held, seen, reported, total>>

-----------------------------------------------------------------------------
(* Mutant: running_ is read, and cleared at the end of the call. *)
StopCall_NoExchange(t) ==
    /\ at[t] = "idle" /\ kind # "none" /\ drv /\ Go(t, "stop")
    /\ UNCHANGED <<vars, kind, drv, gw, held, countVars>>

(* stop(): running_.exchange(false).  The one who finds it set tears the    *)
(* driver down; any other call changes nothing.                             *)
StopCall(t) ==
    /\ at[t] = "idle" /\ at["main"] \in {"idle", "poll"} /\ kind # "none"
    /\ drv /\ drv' = FALSE /\ Go(t, "stop")
    /\ UNCHANGED <<vars, kind, gw, held, countVars>>

(* The rest of FpgaDriver::stop() ... *)
FpgaStop(t) ==
    /\ at[t] = "stop" /\ kind = "fpga" /\ Go(t, "idle")
    /\ held' = held \ {"bar", "fd"}
    /\ UNCHANGED <<vars, kind, drv, gw, countVars>>

(* ... and of DpdkDriver::stop(). *)
DpdkStop(t) ==
    /\ at[t] = "stop" /\ kind = "dpdk" /\ Go(t, "idle")
    /\ held' = held \ {"port", "eal"}
    /\ UNCHANGED <<vars, kind, drv, gw, countVars>>

(* SoftwareDriver::stop(): gateway_->stop(), which returns when the gateway *)
(* is down; gateway_.reset(); feed_->close() and feed_.reset().             *)
StopGateway(t) ==
    /\ at[t] = "stop" /\ kind = "software" /\ Go(t, "join")
    /\ Stop
    /\ UNCHANGED <<kind, drv, gw, held, countVars>>

(* Mutant: the feed goes as soon as the gateway has been told to stop. *)
ResetGateway_Early(t) ==
    /\ at[t] = "join" /\ Go(t, "reset")
    /\ gw' = FALSE
    /\ UNCHANGED <<vars, kind, drv, held, countVars>>

ResetGateway(t) ==
    /\ at[t] = "join" /\ owner = "down" /\ Go(t, "reset")
    /\ gw' = FALSE
    /\ UNCHANGED <<vars, kind, drv, held, countVars>>

ResetFeed(t) ==
    /\ at[t] = "reset" /\ Go(t, "idle")
    /\ held' = held \ {"feed"}
    /\ UNCHANGED <<vars, kind, drv, gw, countVars>>

(* The destructor: stop(), then the members' destructors. *)
Destroy ==
    /\ BothIdle /\ kind # "none" /\ ~drv
    /\ kind' = "none" /\ Go("main", "fpga")
    /\ gw' = FALSE /\ held' = held \ {"feed"}
    /\ UNCHANGED <<vars, drv, countVars>>

-----------------------------------------------------------------------------
(* poll() looks at gateway_, or at running_; another thread may run before  *)
(* it goes on.  FpgaDriver::poll() returns 0.                               *)
PollTest ==
    /\ at.main = "idle" /\ ((kind = "software" /\ gw) \/ (kind = "dpdk" /\ drv))
    /\ Go("main", "poll")
    /\ UNCHANGED <<vars, kind, drv, gw, held, countVars>>

(* Mutant: after a restart the unsigned difference wraps. *)
Delta_Unguarded(rx) == (rx - seen) % 2^30

Delta(rx) == IF rx > seen THEN rx - seen ELSE 0

(* The software driver reports how far the gateway's counter has moved. *)
PollSoftware ==
    /\ at.main = "poll" /\ kind = "software" /\ gw /\ Go("main", "idle")
    /\ reported' = reported + Delta(orders) /\ seen' = orders
    /\ UNCHANGED <<vars, kind, drv, gw, held, orders, total>>

(* A stop() has destroyed the gateway since poll() looked: the call is      *)
(* undefined, and the run loop is not heard of again.                       *)
PollDestroyed ==
    /\ at.main = "poll" /\ kind = "software" /\ ~gw /\ Go("main", "undefined")
    /\ UNCHANGED <<vars, kind, drv, gw, held, countVars>>

(* The DPDK driver counts and frees what rte_eth_rx_burst() hands over, a   *)
(* packet being an order to the counters.                                   *)
PollDpdk ==
    /\ at.main = "poll" /\ kind = "dpdk" /\ Go("main", "idle")
    /\ \E n \in 0..MaxOrders - total :
          /\ "port" \in held \/ n = 0
          /\ total' = total + n /\ seen' = seen + n /\ reported' = reported + n
    /\ UNCHANGED <<vars, kind, drv, gw, held, orders>>

-----------------------------------------------------------------------------
(* The gateway's own threads; a handler may count an order. *)
GatewayStep ==
    /\ \/ Owner \/ Acceptor \/ AcceptError
       \/ \E s \in Sessions : Accept(s) \/ Worker(s) \/ PeerClose(s)
    /\ UNCHANGED driverVars

Receive(s) ==
    /\ RecvData(s)
    /\ \E n \in 0..1 : total + n <= MaxOrders /\ total' = total + n /\ orders' = orders + n
    /\ UNCHANGED <<at, kind, drv, gw, held, seen, reported>>

StopStep(t) ==
    FpgaStop(t) \/ DpdkStop(t) \/ StopGateway(t) \/ ResetGateway(t) \/ ResetFeed(t)

DNext ==
    \/ Factory \/ StartCall \/ OpenFeed \/ StartGateway \/ GatewayFails
    \/ PollTest \/ PollSoftware \/ PollDestroyed \/ PollDpdk \/ Destroy
    \/ \E t \in {"main", "ctl"} : StopCall(t) \/ StopStep(t)
    \/ GatewayStep
    \/ \E s \in Sessions : Receive(s)

(* A stop() that has begun is carried on, as are the gateway's threads;     *)
(* nobody has to make a call.                                               *)
DSpec ==
    /\ DInit /\ [][DNext]_dvars
    /\ WF_dvars(\E t \in {"main", "ctl"} : StopStep(t))
    /\ WF_dvars(Owner /\ UNCHANGED driverVars) /\ WF_dvars(Acceptor /\ UNCHANGED driverVars)
    /\ \A s \in Sessions : WF_dvars(Worker(s) /\ UNCHANGED driverVars)

-----------------------------------------------------------------------------
(* No worker outlives the feed it publishes to: whoever calls stop(), the   *)
(* gateway's threads are joined before feed_ is closed and destroyed.       *)
FeedOutlivesWorkers ==
    [][ "feed" \in held /\ "feed" \notin held' =>
          acceptor = "none" /\ \A s \in Sessions : worker[s] \in {"none", "ended"} ]_dvars

(* When there is no driver, nothing of the last ones is left but the EAL of *)
(* a DPDK driver that failed to start.  A stopped driver has its gateway    *)
(* down and its device released; a failed start() leaves the feed open.     *)
Released ==
    /\ kind = "none" /\ at.main # "map" => held \subseteq {"eal"} /\ ~gw
    /\ BothIdle /\ ~drv =>
          owner = "down" /\ held \subseteq {"eal", "feed"}

(* Two calls of stop() never tear one driver down together. *)
Stopping(t) == at[t] \in {"stop", "join", "reset"}
TeardownOnce == ~ (Stopping("main") /\ Stopping("ctl"))

(* The calls of poll() never add up to more than was received, across       *)
(* restarts that set the gateway's counter back to 0 included.              *)
PollNeverOverReports == reported \in 0..total

(* Every call of stop() returns, whichever thread makes it. *)
DriverStops == (Stopping("main") \/ Stopping("ctl")) ~> ~ (Stopping("main") \/ Stopping("ctl"))
=============================================================================
