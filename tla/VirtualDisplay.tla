--------------------------- MODULE VirtualDisplay ---------------------------
(***************************************************************************)
(* The virtual display: the control library (IddController), which creates *)
(* the software device and sends it plug-in and plug-out requests, and the *)
(* indirect display driver (Driver), which tells Windows of monitors and   *)
(* runs one thread per swap-chain.                                         *)
(*                                                                         *)
(* Three parties interleave: the processes that use the library, the       *)
(* driver's request handler, and Windows, which assigns and takes back     *)
(* swap-chains and loses them at any time.  Windows, WDF and IddCx are     *)
(* external, by how the driver uses them.                                  *)
(*                                                                         *)
(* The library takes its request codes, IOCTL_CHANGER_IDD_*, from a header *)
(* that is not in the repository (../RustDeskIddDriver/Public.h), and the  *)
(* driver answers those of its own header, IOCTL_QUICKDESK_VD_*, and       *)
(* refuses all others.  The module takes the two sets to be equal: it is   *)
(* about the library and the driver as they work together.                 *)
(***************************************************************************)
EXTENDS Naturals, Sequences, FiniteSets

CONSTANTS
    Callers,          \* processes that use the control library
    Indices,          \* monitor indices they ask for
    MaxMonitorCount,  \* m_sMaxMonitorCount
    MaxRetries,       \* bound: the retries of MonitorPlugIn
    MaxFrames,        \* bound: frames ready in a swap-chain
    MaxMonitors,      \* bound: monitors created in a run
    MaxChains,        \* bound: swap-chains assigned in a run
    MaxFaults         \* bound: failing calls, timeouts, lost swap-chains

None == "none"

ASSUME DisplayAssumption ==
    /\ IsFiniteSet(Callers) /\ None \notin Callers /\ Indices \subseteq Nat
    /\ MaxMonitorCount \in Nat /\ MaxRetries \in Nat /\ MaxFrames \in Nat
    /\ MaxMonitors \in Nat /\ MaxChains \in Nat /\ MaxFaults \in Nat

Slots == 0 .. MaxMonitorCount - 1

VARIABLES
    device,    \* the software device
    owner,     \* the process with its handle, if any, and whether it still knows it
    keeps,     \* the device's lifetime outlasts the handle
    adapter,   \* m_AdapterInitStatus
    handle,    \* the caller that has opened the device (share mode 0)
    call,      \* the library call of each process
    slots,     \* m_Monitors
    monitors,  \* monitor objects in the order of their creation
    threads,   \* SwapChainProcessor threads, with their swap-chains
    faults     \* faults so far

software == <<device, owner, keeps>>
driver == <<adapter, slots, monitors, threads>>
displayVars == <<device, owner, keeps, adapter, handle, call, slots, monitors, threads, faults>>

Idle == [op |-> None, index |-> 0, left |-> 0, pc |-> "idle"]
Nobody == [who |-> None, lost |-> FALSE]
MonitorIds == 1 .. Len(monitors)
ThreadIds == 1 .. Len(threads)

DisplayTypeOK ==
    /\ device \in {"absent", "creating", "present"}
    /\ owner \in [who : Callers \cup {None}, lost : BOOLEAN] /\ keeps \in BOOLEAN
    /\ adapter \in {"off", "starting", "ready", "failed"}
    /\ handle \in Callers \cup {None}
    /\ call \in [Callers -> [op : {None, "create", "keep", "in", "out", "modes"}, index : Indices \cup {0},
                             left : 0 .. MaxRetries,
                             pc : {"idle", "creating", "open", "ioctl", "created", "arrived"}]]
    /\ slots \in [Slots -> 0 .. MaxMonitors]
    /\ Len(monitors) <= MaxMonitors /\ Len(threads) <= MaxChains
    /\ \A m \in MonitorIds :
          monitors[m] \in [slot : Slots, state : {"created", "arrived", "departed"},
                           context : BOOLEAN, thread : 0 .. MaxChains,
                           os : {"idle", "assign", "unassign"}]
    /\ \A t \in ThreadIds :
          threads[t] \in [monitor : MonitorIds, chain : {"live", "abandoned", "deleted"},
                          runs : BOOLEAN, stop : BOOLEAN, frames : 0 .. MaxFrames]
    /\ faults \in 0 .. MaxFaults

DisplayInit ==
    /\ device = "absent" /\ owner = Nobody /\ keeps = FALSE /\ adapter = "off" /\ handle = None
    /\ call = [c \in Callers |-> Idle] /\ slots = [i \in Slots |-> 0]
    /\ monitors = <<>> /\ threads = <<>> /\ faults = 0

Fault == faults < MaxFaults /\ faults' = faults + 1

\* The swap-chains of a monitor that departs are abandoned.
abandon(ms) == [t \in ThreadIds |-> IF threads[t].monitor \in ms /\ threads[t].chain = "live"
                                    THEN [threads[t] EXCEPT !.chain = "abandoned"] ELSE threads[t]]

\* The driver's objects go with the device; the threads of their contexts end
\* by themselves.
driverGone ==
    /\ adapter' = "off" /\ slots' = [i \in Slots |-> 0]
    /\ monitors' = [m \in MonitorIds |-> [monitors[m] EXCEPT !.state = "departed"]]
    /\ threads' = abandon(MonitorIds)
\* A request that meets this fails, and its call closes the handle.
callsFailed ==
    /\ call' = [c \in Callers |-> IF call[c].pc \in {"created", "arrived"} THEN Idle ELSE call[c]]
    /\ handle' = IF handle # None /\ call[handle].pc \in {"created", "arrived"} THEN None ELSE handle

(***************************************************************************)
(* The software device.                                                    *)
(***************************************************************************)
\* DeviceCreate, DeviceCreateWithLifetime: a handle that is not NULL, or the
\* handle of another process, makes the call fail at once.
DeviceCreate(c, op) ==
    /\ call[c].pc = "idle" /\ owner = Nobody
    /\ call' = [call EXCEPT ![c] = [Idle EXCEPT !.op = op, !.pc = "creating"]]
    /\ owner' = [who |-> c, lost |-> FALSE]
    /\ device' = IF device = "present" THEN device ELSE "creating"
    /\ UNCHANGED <<keeps, driver, handle, faults>>

\* IddRustDeskDeviceAdd: a context with nothing in its slots.
DeviceAdd == slots' = [i \in Slots |-> 0]

\* InitAdapter, when the device enters D0: the adapter starts, or the status
\* stays as the context was made with.
InitAdapter ==
    \/ adapter' = "starting" /\ UNCHANGED faults
    \/ adapter' = "off" /\ Fault

\* Windows creates the device and starts the driver, or cannot; a call that
\* has given up has left its context on a stack that is gone, and any
\* lifetime may be read from it.
CreationCallback ==
    LET c == owner.who
    IN  /\ c \in Callers /\ (device = "creating" \/ call[c].pc = "creating")
        /\ \/ /\ device' = "present"
              /\ IF device = "present" THEN UNCHANGED <<adapter, slots, faults>>
                 ELSE DeviceAdd /\ InitAdapter
              /\ IF call[c].pc = "creating" THEN keeps' = (call[c].op = "keep")
                 ELSE keeps' \in BOOLEAN
           \/ Fault /\ device = "creating" /\ device' = "absent" /\ UNCHANGED <<keeps, adapter, slots>>
        /\ call' = [call EXCEPT ![c] = IF @.pc = "creating" THEN Idle ELSE @]
        /\ UNCHANGED <<owner, handle, monitors, threads>>

\* The wait of ten seconds ends; the handle is not closed.
CreateTimesOut(c) ==
    /\ call[c].pc = "creating" /\ Fault /\ call' = [call EXCEPT ![c] = Idle]
    /\ UNCHANGED <<software, driver, handle>>

removed ==
    /\ device' = "absent" /\ owner' = Nobody /\ keeps' = FALSE
    /\ IF device = "present" THEN driverGone /\ callsFailed
       ELSE UNCHANGED <<driver, call, handle>>

\* IsDeviceCreated: the driver's device interface is enabled.
isDeviceCreated == device = "present"

\* DeviceClose: with its own handle, or with one it creates for a device that
\* nobody holds; if that creation times out, the handle is lost.
DeviceClose(c) ==
    /\ call[c].pc = "idle"
    /\ \/ owner = [who |-> c, lost |-> FALSE] /\ removed /\ UNCHANGED faults
       \/ owner = Nobody /\ isDeviceCreated /\ removed /\ UNCHANGED faults
       \/ /\ owner = Nobody /\ isDeviceCreated /\ Fault
          /\ owner' = [who |-> c, lost |-> TRUE] /\ UNCHANGED <<device, keeps, driver, call, handle>>

\* Windows closes the handles of a process that ends.  One that is killed in
\* a request ends after it.
ProcessEnds(c) ==
    /\ call[c].pc = "idle" /\ UNCHANGED faults
    /\ \/ /\ owner.who = c /\ ~(keeps /\ device = "present") /\ handle # c /\ removed
       \/ /\ owner.who = c /\ keeps /\ device = "present" /\ owner' = Nobody
          /\ handle' = IF handle = c THEN None ELSE handle
          /\ UNCHANGED <<device, keeps, driver, call>>
       \/ /\ owner.who # c /\ handle = c /\ handle' = None /\ UNCHANGED <<software, driver, call>>

AdapterInitFinished ==
    /\ adapter = "starting"
    /\ \/ adapter' = "ready" /\ UNCHANGED faults
       \/ adapter' = "failed" /\ Fault
    /\ UNCHANGED <<software, handle, call, slots, monitors, threads>>

(***************************************************************************)
(* The library's requests.                                                 *)
(***************************************************************************)
to(c, pc) == [call EXCEPT ![c].pc = pc]

\* The call returns and closes the handle.
done(c) == call' = [call EXCEPT ![c] = Idle] /\ handle' = IF handle = c THEN None ELSE handle

\* GetDevicePath2: the path of the first enabled interface.
devicePath == device = "present"

\* DeviceOpenHandle: there is a device and nobody else has opened it.
mayOpen == devicePath /\ handle = None

\* The first try to open the device; only MonitorPlugIn has others.
Request(c, op, i) ==
    LET r == IF op = "in" THEN MaxRetries ELSE 0
        new == [op |-> op, index |-> i, left |-> r, pc |-> "ioctl"]
    IN  /\ call[c].pc = "idle"
        /\ \/ mayOpen /\ handle' = c /\ call' = [call EXCEPT ![c] = new]
           \/ /\ ~mayOpen /\ r > 0 /\ UNCHANGED handle
              /\ call' = [call EXCEPT ![c] = [new EXCEPT !.left = r - 1, !.pc = "open"]]
        /\ UNCHANGED <<software, driver, faults>>

MonitorPlugIn(c, i) == Request(c, "in", i)
MonitorPlugOut(c, i) == Request(c, "out", i)
MonitorModesUpdate(c) == Request(c, "modes", 0)

\* A second later, another try.
Open(c) ==
    /\ call[c].pc = "open"
    /\ \/ mayOpen /\ handle' = c /\ call' = to(c, "ioctl")
       \/ /\ ~mayOpen /\ UNCHANGED handle
          /\ call' = [call EXCEPT ![c] = IF call[c].left = 0 THEN Idle
                                          ELSE [call[c] EXCEPT !.left = call[c].left - 1]]
    /\ UNCHANGED <<software, driver, faults>>

\* The same loop tries a request that fails again, at once.
failed(c) ==
    \/ call[c].left = 0 /\ done(c)
    \/ /\ call[c].left > 0 /\ UNCHANGED handle
       /\ call' = [call EXCEPT ![c].left = @ - 1, ![c].pc = "ioctl"]

\* CheckIndex, the adapter's status and the slot, in PlugInMonitor.
mayPlugIn(i) == i < MaxMonitorCount /\ adapter = "ready" /\ slots[i] = 0

\* PlugInMonitor, up to IddCxMonitorCreate.
PlugIn(c) ==
    LET i == call[c].index
        can == mayPlugIn(i) /\ Len(monitors) < MaxMonitors
    IN  /\ call[c].op = "in" /\ call[c].pc = "ioctl"
        /\ \/ /\ can /\ call' = to(c, "created") /\ UNCHANGED <<handle, faults>>
              /\ monitors' = Append(monitors, [slot |-> i, state |-> "created", context |-> FALSE,
                                               thread |-> 0, os |-> "idle"])
           \/ ~can /\ failed(c) /\ UNCHANGED <<monitors, faults>>
           \/ can /\ Fault /\ failed(c) /\ UNCHANGED monitors
        /\ UNCHANGED <<software, adapter, slots, threads>>

\* IddCxMonitorArrival; if it fails the monitor departs.
Arrival(c) ==
    LET m == Len(monitors)
    IN  /\ call[c].pc = "created"
        /\ \/ /\ monitors' = [monitors EXCEPT ![m].state = "arrived"]
              /\ call' = to(c, "arrived") /\ UNCHANGED <<handle, faults>>
           \/ Fault /\ monitors' = [monitors EXCEPT ![m].state = "departed"] /\ failed(c)
        /\ UNCHANGED <<software, adapter, slots, threads>>

\* The context and the slot are set after Windows knows of the monitor.
Plugged(c) ==
    LET m == Len(monitors)
    IN  /\ call[c].pc = "arrived" /\ done(c)
        /\ monitors' = [monitors EXCEPT ![m].context = TRUE]
        /\ slots' = [slots EXCEPT ![call[c].index] = m]
        /\ UNCHANGED <<software, adapter, threads, faults>>

mayPlugOut(i) == device = "present" /\ i < MaxMonitorCount /\ slots[i] # 0

\* Mutant: the slot is cleared whatever IddCxMonitorDeparture says.
PlugOutForgets(c) ==
    LET i == call[c].index
    IN  /\ call[c].op = "out" /\ call[c].pc = "ioctl" /\ done(c)
        /\ \/ /\ mayPlugOut(i) /\ (Fault \/ UNCHANGED faults)
              /\ slots' = [slots EXCEPT ![i] = 0] /\ UNCHANGED <<monitors, threads>>
           \/ ~mayPlugOut(i) /\ UNCHANGED <<monitors, threads, slots, faults>>
        /\ UNCHANGED <<software, adapter>>

PlugOut(c) ==
    LET i == call[c].index
    IN  /\ call[c].op = "out" /\ call[c].pc = "ioctl" /\ done(c)
        /\ \/ /\ mayPlugOut(i) /\ UNCHANGED faults
              /\ monitors' = [monitors EXCEPT ![slots[i]].state = "departed"]
              /\ threads' = abandon({slots[i]}) /\ slots' = [slots EXCEPT ![i] = 0]
           \/ ~mayPlugOut(i) /\ UNCHANGED <<monitors, threads, slots, faults>>
           \/ mayPlugOut(i) /\ Fault /\ UNCHANGED <<monitors, threads, slots>>
        /\ UNCHANGED <<software, adapter>>

\* UpdateMonitorModes: the modes of a monitor that is there are handed to
\* Windows; refused or not, nothing of the driver changes.
UpdateMonitorModes == UNCHANGED driver

\* Without memory for the modes MonitorModesUpdate returns before the request,
\* with the device still open.
UpdateModes(c) ==
    /\ call[c].op = "modes" /\ call[c].pc = "ioctl"
    /\ \/ UpdateMonitorModes /\ done(c) /\ UNCHANGED faults
       \/ Fault /\ call' = [call EXCEPT ![c] = Idle] /\ UNCHANGED <<driver, handle>>
    /\ UNCHANGED software

(***************************************************************************)
(* Windows and the swap-chains.                                            *)
(***************************************************************************)
Ended(t) == [threads[t] EXCEPT !.chain = "deleted", !.runs = FALSE, !.stop = FALSE, !.frames = 0]
ChainsOf(m) == {t \in ThreadIds : threads[t].monitor = m}
stopped(m) == [t \in ThreadIds |-> IF t = monitors[m].thread /\ threads[t].runs THEN [threads[t] EXCEPT !.stop = TRUE]
                                   ELSE threads[t]]

\* Windows offers a swap-chain to a monitor without one.  The old thread is
\* told to stop; a monitor without a context yet brings the driver down.
AssignSwapChain(m) ==
    /\ monitors[m].state = "arrived" /\ monitors[m].os = "idle" /\ Len(threads) < MaxChains
    /\ \A t \in ChainsOf(m) : threads[t].chain # "live"
    /\ IF monitors[m].context
       THEN /\ monitors' = [monitors EXCEPT ![m].os = "assign"] /\ threads' = stopped(m)
            /\ UNCHANGED <<adapter, slots, call, handle>>
       ELSE /\ adapter' = "starting" /\ slots' = [i \in Slots |-> 0] /\ callsFailed
            /\ monitors' = [k \in MonitorIds |-> [monitors[k] EXCEPT !.state = "departed",
                                                  !.os = "idle", !.thread = 0]]
            /\ threads' = [t \in ThreadIds |-> Ended(t)]
    /\ UNCHANGED <<software, faults>>

UnassignSwapChain(m) ==
    /\ monitors[m].os = "idle" /\ monitors[m].context
    /\ \E t \in ChainsOf(m) : threads[t].chain # "deleted"
    /\ monitors' = [monitors EXCEPT ![m].os = "unassign"] /\ threads' = stopped(m)
    /\ UNCHANGED <<software, adapter, handle, call, slots, faults>>

\* Mutant: the destructor does not wait for its thread.
MayReturn(m) == TRUE

\* ~SwapChainProcessor waits for the thread without a limit.
joined(m) == monitors[m].thread # 0 => ~threads[monitors[m].thread].runs

\* Direct3DDevice::Init: no factory, no adapter of that name, or no device.
Direct3DFails == Fault

\* SwapChainProcessor: its thread runs from the start.
startThread(m) ==
    /\ threads' = Append(threads, [monitor |-> m, runs |-> TRUE, stop |-> FALSE, frames |-> 0,
                                   chain |-> IF monitors[m].state = "arrived" THEN "live" ELSE "abandoned"])
    /\ monitors' = [monitors EXCEPT ![m].os = "idle", ![m].thread = Len(threads) + 1]

\* m_ProcessingThread.reset() returns; AssignSwapChain goes on to start a
\* thread for the new chain, or deletes it when Direct3D cannot be set up.
Reset(m) ==
    /\ monitors[m].os # "idle" /\ joined(m)
    /\ \/ /\ monitors[m].os = "unassign" /\ UNCHANGED <<threads, faults>>
          /\ monitors' = [monitors EXCEPT ![m].os = "idle", ![m].thread = 0]
       \/ /\ monitors[m].os = "assign" /\ (Direct3DFails \/ (Len(threads) = MaxChains /\ UNCHANGED faults))
          /\ monitors' = [monitors EXCEPT ![m].os = "idle", ![m].thread = 0] /\ UNCHANGED threads
       \/ /\ monitors[m].os = "assign" /\ Len(threads) < MaxChains /\ UNCHANGED faults
          /\ startThread(m)
    /\ UNCHANGED <<software, adapter, handle, call, slots>>

\* Windows stops drawing into a chain that it is taking back.
FrameReady(t) ==
    /\ threads[t].chain = "live" /\ threads[t].frames < MaxFrames
    /\ monitors[threads[t].monitor].os # "unassign"
    /\ threads' = [threads EXCEPT ![t].frames = @ + 1]
    /\ UNCHANGED <<software, adapter, handle, call, slots, monitors, faults>>

ChainLost(t) ==
    /\ threads[t].chain = "live" /\ Fault
    /\ threads' = [threads EXCEPT ![t].chain = "abandoned"]
    /\ UNCHANGED <<software, adapter, handle, call, slots, monitors>>

\* Mutant: a terminate event is taken for a new buffer.
LeavesIfAbandoned(t) == threads[t].chain = "abandoned"

\* The chain is abandoned, or no buffer is ready and the terminate event is
\* set: buffers go before the event.
leavesLoop(t) == threads[t].chain = "abandoned" \/ (threads[t].frames = 0 /\ threads[t].stop)

\* RunCore: a frame, the end of the loop, or an error; Run deletes the chain.
Run(t) ==
    /\ threads[t].runs
    /\ \/ /\ threads[t].frames > 0 /\ threads[t].chain = "live" /\ UNCHANGED faults
          /\ threads' = [threads EXCEPT ![t].frames = @ - 1]
       \/ leavesLoop(t) /\ threads' = [threads EXCEPT ![t] = Ended(t)] /\ UNCHANGED faults
       \/ ~leavesLoop(t) /\ threads' = [threads EXCEPT ![t] = Ended(t)] /\ Fault
    /\ UNCHANGED <<software, adapter, handle, call, slots, monitors>>

(***************************************************************************)
(* The system.                                                             *)
(***************************************************************************)
CallStep(c) == Open(c) \/ PlugIn(c) \/ Arrival(c) \/ Plugged(c) \/ PlugOut(c) \/ UpdateModes(c)

DisplayNext ==
    \/ \E c \in Callers :
          \/ DeviceCreate(c, "create") \/ DeviceCreate(c, "keep") \/ CreateTimesOut(c) \/ DeviceClose(c)
          \/ ProcessEnds(c) \/ CallStep(c) \/ MonitorModesUpdate(c)
          \/ \E i \in Indices : MonitorPlugIn(c, i) \/ MonitorPlugOut(c, i)
    \/ CreationCallback \/ AdapterInitFinished
    \/ \E m \in MonitorIds : AssignSwapChain(m) \/ UnassignSwapChain(m) \/ Reset(m)
    \/ \E t \in ThreadIds : FrameReady(t) \/ ChainLost(t) \/ Run(t)

DisplaySpec == DisplayInit /\ [][DisplayNext]_displayVars

\* The driver's threads go on, and so do waits that are over.
DisplayFairSpec ==
    /\ DisplaySpec
    /\ \A m \in 1 .. MaxMonitors : WF_displayVars(m \in MonitorIds /\ Reset(m))
    /\ \A t \in 1 .. MaxChains : WF_displayVars(t \in ThreadIds /\ Run(t))

(***************************************************************************)
(* Properties.                                                             *)
(***************************************************************************)
ShownAt(i) == {m \in MonitorIds : monitors[m].slot = i /\ monitors[m].state = "arrived"}

\* A connector shows at most one monitor, and it is the one in m_Monitors
\* unless a plug-in of it is under way: no failure of a call to Windows leaves
\* a monitor that can no longer be plugged out (PlugInMonitor, PlugOutMonitor).
MonitorsTracked ==
    \A i \in Slots :
        /\ Cardinality(ShownAt(i)) <= 1
        /\ \/ ShownAt(i) = {slots[i]} \ {0}
           \/ \E c \in Callers : call[c].index = i /\ call[c].pc = "arrived"

\* A thread that runs belongs to the SwapChainProcessor of its monitor's
\* context, which is therefore not freed under it, and its chain is not deleted
\* (AssignSwapChain, UnassignSwapChain, ~SwapChainProcessor, Run).
ThreadsOwned ==
    \A t \in ThreadIds :
        threads[t].runs => /\ monitors[threads[t].monitor].thread = t
                           /\ threads[t].chain # "deleted"

\* A swap-chain callback of Windows returns: the wait for the old processing
\* thread, which has no limit, ends (AssignSwapChain, UnassignSwapChain,
\* ~SwapChainProcessor, RunCore).
CallbacksReturn ==
    \A m \in 1 .. MaxMonitors :
        (m \in MonitorIds /\ monitors[m].os # "idle") ~> (m \in MonitorIds /\ monitors[m].os = "idle")
=============================================================================
