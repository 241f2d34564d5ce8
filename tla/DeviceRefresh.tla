--------------------------- MODULE DeviceRefresh ---------------------------
(***************************************************************************)
(* How a window keeps its list of devices: a monitor thread forwards the   *)
(* signals of UDisks2, a timer of the window polls it (tick), and a gate   *)
(* lets one scan run and remembers that another was asked for meanwhile.   *)
(* The main window and the picker use the same code.                       *)
(*                                                                         *)
(* The devices are a version number; the clock is reduced to the two       *)
(* deadlines, which pass at any moment.                                    *)
(***************************************************************************)
EXTENDS Integers

CONSTANTS
    MaxPlugs,        \* bound: how often the devices change
    MaxLosses,       \* bound: scans and monitor starts that fail, monitors that end
    MaxDeadlines     \* bound: how often a deadline passes

ASSUME DeviceBounds == MaxPlugs \in Nat /\ MaxLosses \in Nat /\ MaxDeadlines \in Nat

VARIABLES
    attached,     \* the devices, as a version
    monitor,      \* DeviceMonitor: "none", or its thread is "on" or "ended"
    signals,      \* the channel of the monitor is not empty
    gate,         \* RefreshGate: loading, pending
    due,          \* deadlines that have passed: "retry", "reconcile"
    scan,         \* the background scan: its stage and the version it has read
    shown,        \* `devices` of the window
    scanError,    \* device_scan_error is set
    untold,       \* history: a change that no signal reported
    losses, deadlines

deviceVars == <<attached, monitor, signals, gate, due, scan, shown, scanError, untold, losses, deadlines>>

NoDeviceScan == [stage |-> "none", read |-> 0]
FailedRead == -1
Fails == losses < MaxLosses /\ losses' = losses + 1
Works == UNCHANGED losses

\* Defect: a request made while a scan runs is forgotten.
Defect_Request(g) == [loading |-> TRUE, pending |-> FALSE]

\* RefreshGate::request, and whether it starts a scan
Request(g) == IF g.loading THEN [g EXCEPT !.pending = TRUE] ELSE [g EXCEPT !.loading = TRUE]

Starts(g) == ~g.loading

\* RefreshGate::finished, and whether it starts another scan
Finished(g) == IF g.pending THEN [g EXCEPT !.pending = FALSE] ELSE [g EXCEPT !.loading = FALSE]

StartsAgain(g) == g.pending

\* start_device_scan
StartScan == scan' = [stage |-> "asked", read |-> 0]

\* a new window asks for its first scan (DeviceRefresh::new, refresh_devices)
DeviceInit ==
    /\ attached = 1
    /\ \/ monitor = "on" /\ losses = 0
       \/ monitor = "none" /\ losses = 1 /\ MaxLosses > 0
    /\ signals = FALSE
    /\ gate = Request([loading |-> FALSE, pending |-> FALSE])
    /\ due = {}
    /\ scan = [stage |-> "asked", read |-> 0]
    /\ shown = 0
    /\ scanError = FALSE
    /\ untold = FALSE
    /\ deadlines = 0

\* a device is plugged in, mounted or removed; UDisks2 tells the monitor
Plug ==
    /\ attached <= MaxPlugs
    /\ attached' = attached + 1
    /\ signals' = (signals \/ monitor = "on")
    /\ untold' = (untold \/ monitor # "on")
    /\ UNCHANGED <<monitor, gate, due, scan, shown, scanError, losses, deadlines>>

\* the thread of the monitor ends at the first message that is an error
MonitorEnds ==
    /\ monitor = "on" /\ Fails
    /\ monitor' = "ended"
    /\ UNCHANGED <<attached, signals, gate, due, scan, shown, scanError, untold, deadlines>>

DeadlinePasses(d) ==
    /\ d \notin due /\ deadlines < MaxDeadlines
    /\ due' = due \union {d}
    /\ deadlines' = deadlines + 1
    /\ UNCHANGED <<attached, monitor, signals, gate, scan, shown, scanError, untold, losses>>

\* DeviceRefresh::tick in the timer of the window
Tick ==
    LET retries == monitor = "none" /\ "retry" \in due
        refresh == signals \/ (retries /\ monitor' = "on") \/ "reconcile" \in due
    IN  /\ \/ retries /\ ((monitor' = "on" /\ Works) \/ (monitor' = "none" /\ Fails))
           \/ ~retries /\ UNCHANGED <<monitor, losses>>
        /\ signals' = FALSE
        /\ due' = due \ ({"reconcile"} \union (IF retries THEN {"retry"} ELSE {}))
        /\ gate' = IF refresh THEN Request(gate) ELSE gate
        /\ IF refresh /\ Starts(gate) THEN StartScan ELSE UNCHANGED scan
        /\ UNCHANGED <<attached, shown, scanError, untold, deadlines>>

\* scan_devices
ReadDevices ==
    /\ scan.stage = "asked"
    /\ \/ scan' = [stage |-> "read", read |-> attached] /\ untold' = FALSE /\ Works
       \/ scan' = [stage |-> "read", read |-> FailedRead] /\ Fails /\ UNCHANGED untold
    /\ UNCHANGED <<attached, monitor, signals, gate, due, shown, scanError, deadlines>>

\* the result reaches the window, and a pending request starts another scan
TakeDevices ==
    /\ scan.stage = "read"
    /\ IF scan.read = FailedRead
       THEN scanError' = TRUE /\ UNCHANGED shown
       ELSE scanError' = FALSE /\ shown' = scan.read
    /\ due' = due \ {"reconcile"}
    /\ gate' = Finished(gate)
    /\ scan' = IF StartsAgain(gate) THEN [stage |-> "asked", read |-> 0] ELSE NoDeviceScan
    /\ UNCHANGED <<attached, monitor, signals, untold, losses, deadlines>>

DeviceNext ==
    \/ Plug \/ MonitorEnds \/ DeadlinePasses("retry") \/ DeadlinePasses("reconcile")
    \/ Tick \/ ReadDevices \/ TakeDevices

DeviceSpec == DeviceInit /\ [][DeviceNext]_deviceVars

(***************************************************************************)
(* The timer of the window polls and every scan returns.  No deadline has  *)
(* to pass: what a signal reports must not wait for the reconciliation.    *)
(***************************************************************************)
DeviceFairness == WF_deviceVars(Tick \/ ReadDevices \/ TakeDevices)

\* tick and RefreshGate: a change that a signal reported is shown, also when
\* it comes while a scan runs that has read the devices already, unless a
\* scan fails; it must not wait for the next reconciliation.
DeviceChangeIsShown ==
    (shown # attached /\ ~untold) ~> (shown = attached \/ untold \/ scanError)
=============================================================================
