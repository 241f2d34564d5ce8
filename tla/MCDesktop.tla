----------------------------- MODULE MCDesktop -----------------------------
(***************************************************************************)
(* Small instances of the parts of a window and of the portal that share   *)
(* no state: the view of a folder, the requests of the portal, the list of *)
(* devices, the preview panel and the search.  One of them runs; the       *)
(* others stay in an idle state.                                           *)
(***************************************************************************)
EXTENDS DirectoryView, PortalService, DeviceRefresh, PreviewRequests, FileSearch

CONSTANTS d1, d2, a, b, r1, r2, p1, p2, t1, t2, home

VARIABLE part     \* what runs: "view", "portal", "devices", "preview" or "search"

\* One application that uses one handle again.
OneApplication == [r \in Requests |-> "app"]
OneHandle == [r \in Requests |-> "handle"]

-----------------------------------------------------------------------------
\* A window that has loaded an empty folder, and parts that have not started.
ViewIdle ==
    /\ disk = [p \in Places |-> NoRows] /\ changes = 0 /\ blind = {}
    /\ tab = [path |-> d1, root |-> "directory", show |-> TRUE]
    /\ generation = 1 /\ loading = FALSE /\ failed = FALSE /\ scanCancel = 0
    /\ snap = [path |-> d1, from |-> d1, rows |-> NoRows, phase |-> "complete"]
    /\ scans = [g \in Gens |-> NoScan]
    /\ watchers = [g \in Gens |-> NoWatcher] /\ watch = NoWatch
    /\ timers = {} /\ applies = [g \in Gens |-> NoApply]

DevicesIdle ==
    /\ attached = 0 /\ shown = 0 /\ monitor = "ended" /\ signals = FALSE
    /\ gate = [loading |-> FALSE, pending |-> FALSE] /\ scan = NoDeviceScan
    /\ due = {} /\ scanError = FALSE /\ untold = FALSE /\ losses = 0 /\ deadlines = 0

PreviewIdle == PreviewInit /\ ~visible

SearchIdle == SearchInit /\ place.path = d1

DesktopInit ==
    \/ part = "view" /\ Init /\ PortalInit /\ DevicesIdle /\ PreviewIdle /\ SearchIdle
    \/ part = "portal" /\ ViewIdle /\ PortalInit /\ DevicesIdle /\ PreviewIdle /\ SearchIdle
    \/ part = "devices" /\ ViewIdle /\ PortalInit /\ DeviceInit /\ PreviewIdle /\ SearchIdle
    \/ part = "preview" /\ ViewIdle /\ PortalInit /\ DevicesIdle /\ PreviewInit /\ SearchIdle
    \/ part = "search" /\ ViewIdle /\ PortalInit /\ DevicesIdle /\ PreviewIdle /\ SearchInit

DesktopNext ==
    \/ part = "view" /\ Next /\ UNCHANGED <<part, portalVars, deviceVars, previewVars, searchVars>>
    \/ part = "portal" /\ PortalNext /\ UNCHANGED <<part, vars, deviceVars, previewVars, searchVars>>
    \/ part = "devices" /\ DeviceNext /\ UNCHANGED <<part, vars, portalVars, previewVars, searchVars>>
    \/ part = "preview" /\ PreviewNext /\ UNCHANGED <<part, vars, portalVars, deviceVars, searchVars>>
    \/ part = "search" /\ SearchNext /\ UNCHANGED <<part, vars, portalVars, deviceVars, previewVars>>

desktopVars == <<part, vars, portalVars, deviceVars, previewVars, searchVars>>

\* Nothing of a part that is idle is enabled, so that each keeps its fairness.
DesktopSpec ==
    /\ DesktopInit /\ [][DesktopNext]_desktopVars
    /\ Fairness /\ PortalFairness /\ DeviceFairness /\ PreviewFairness /\ SearchFairness
=============================================================================
