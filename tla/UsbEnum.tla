------------------------------ MODULE UsbEnum -------------------------------
(***************************************************************************)
(* Finding the devices on a USB bus: usb_enumerate and usb_hub_port_setup  *)
(* in core/usb.c, the external hubs of hub/usbhub.c, whose ports are       *)
(* enumerated while the hub itself is being configured, the registry of    *)
(* dev/usbdev.c, and the ports and control pipes of an OHCI controller.    *)
(*                                                                         *)
(* Every transfer may fail, and a request whose answer is lost has had its *)
(* effect.  A device is known by the port it sits at.                      *)
(***************************************************************************)
EXTENDS Integers, Sequences, FiniteSets

CONSTANTS
    Ports,         \* hub |-> the devices at its ports; hub 0 is the root hub
    USB_MAXADDR, USBDEV_MAX,
    MaxPipes       \* pipes the pool has room for

VARIABLES
    dev,           \* device |-> [on, addr]: its port is enabled, its address
    maxaddr, g_entries,
    freelist, npipes,
    stack,         \* usb_hub_port_setup, innermost first: [hub, i, step, pipe, found]
    stuck          \* ghost: ports a failed request left as they were

busVars == <<dev, maxaddr, g_entries, freelist, npipes, stack, stuck>>

Hubs == DOMAIN Ports
Devices == UNION {{Ports[h][i] : i \in 1..Len(Ports[h])} : h \in Hubs}

usb_enumerate(h) == [hub |-> h, i |-> 1, step |-> "detect", pipe |-> 0, found |-> 0]

BusInit ==
    /\ dev = [d \in Devices |-> [on |-> FALSE, addr |-> 0]]
    /\ maxaddr = 0 /\ g_entries = <<>> /\ freelist = <<>> /\ npipes = 0
    /\ stack = <<usb_enumerate(0)>> /\ stuck = {}

top == Head(stack)
d0  == Ports[top.hub][top.i]
At(step) == stack # <<>> /\ top.i <= Len(Ports[top.hub]) /\ top.step = step
Becomes(frame) == stack' = <<frame>> \o Tail(stack)
StepTo(step) == Becomes([top EXCEPT !.step = step])
NextPort(count) ==
    Becomes([top EXCEPT !.i = @ + 1, !.step = "detect", !.pipe = 0, !.found = @ + count])

-----------------------------------------------------------------------------
(* Pipes: usb_add_freelist, usb_get_freelist, ohci_realloc_pipe            *)

Pipe == IF freelist # <<>> THEN Head(freelist)
        ELSE IF npipes < MaxPipes THEN npipes + 1 ELSE 0

\* Fault: the pipe is not unlinked from the free list.
usb_alloc_pipe_Keep ==
    /\ freelist' = freelist
    /\ npipes' = IF freelist = <<>> /\ npipes < MaxPipes THEN npipes + 1 ELSE npipes

usb_alloc_pipe ==
    /\ freelist' = IF freelist = <<>> THEN <<>> ELSE Tail(freelist)
    /\ npipes' = IF freelist = <<>> /\ npipes < MaxPipes THEN npipes + 1 ELSE npipes

usb_free_pipe(p) == freelist' = IF p = 0 THEN freelist ELSE <<p>> \o freelist

-----------------------------------------------------------------------------
(* The port                                                                *)

\* Fault: the port is left as it is.
disconnect_None(state, d) == dev' = state /\ stuck' = stuck

\* The root hub's registers always work, a request to an external hub may not.
disconnect(state, d) ==
    \/ dev' = [state EXCEPT ![d].on = FALSE] /\ stuck' = stuck \ {d}
    \/ top.hub # 0 /\ dev' = state /\ stuck' = IF state[d].on THEN stuck \cup {d} ELSE stuck

detect(connected) ==
    /\ At("detect")
    /\ IF connected THEN StepTo("reset") ELSE NextPort(0)
    /\ UNCHANGED <<dev, maxaddr, g_entries, freelist, npipes, stuck>>

\* A device that has been reset listens to address 0.
reset(ok) ==
    LET after == [dev EXCEPT ![d0] = [on |-> TRUE, addr |-> 0]]
    IN  /\ At("reset")
        /\ IF ok THEN dev' = after /\ stuck' = stuck \ {d0} /\ StepTo("address")
           ELSE (disconnect(after, d0) \/ disconnect(dev, d0)) /\ NextPort(0)
        /\ UNCHANGED <<maxaddr, g_entries, freelist, npipes>>

-----------------------------------------------------------------------------
(* usb_set_address                                                         *)

\* A device can be reached when the ports up to the root are enabled.
reached[d \in Devices] ==
    dev[d].on /\ \A h \in Hubs \ {0} : (\E i \in 1..Len(Ports[h]) : Ports[h][i] = d) => reached[h]

\* Whoever listens to address 0 takes the new one.
Addressed(a) ==
    [d \in Devices |-> IF reached[d] /\ dev[d].addr = 0 THEN [dev[d] EXCEPT !.addr = a] ELSE dev[d]]

\* No address or no pipe left.
NoAddress ==
    /\ At("address") /\ (maxaddr >= USB_MAXADDR \/ Pipe = 0)
    /\ disconnect(dev, d0) /\ NextPort(0)
    /\ UNCHANGED <<maxaddr, g_entries, freelist, npipes>>

\* The request fails, before or after the device has taken the address.
AddressFails ==
    /\ At("address") /\ maxaddr < USB_MAXADDR /\ Pipe # 0
    /\ disconnect(dev, d0) \/ disconnect(Addressed(maxaddr + 1), d0)
    /\ freelist' = IF freelist = <<>> THEN <<Pipe>> ELSE freelist
    /\ npipes' = IF freelist = <<>> THEN npipes + 1 ELSE npipes
    /\ NextPort(0)
    /\ UNCHANGED <<maxaddr, g_entries>>

\* The pipe is given back and taken again for the new address: the same one.
usb_set_address ==
    /\ At("address") /\ maxaddr < USB_MAXADDR /\ Pipe # 0
    /\ dev' = Addressed(maxaddr + 1) /\ maxaddr' = maxaddr + 1
    /\ usb_alloc_pipe
    /\ Becomes([top EXCEPT !.step = "configure", !.pipe = Pipe])
    /\ UNCHANGED <<g_entries, stuck>>

-----------------------------------------------------------------------------
(* configure_usb_device, and what usb_hub_port_setup does after it         *)

usbdev_register(d) ==
    g_entries' = IF Len(g_entries) >= USBDEV_MAX THEN g_entries ELSE Append(g_entries, d)

\* A descriptor or the configuration cannot be had, or no driver takes the
\* device.
Unusable ==
    /\ At("configure")
    /\ usb_free_pipe(top.pipe)
    /\ disconnect(dev, d0) /\ NextPort(0)
    /\ UNCHANGED <<maxaddr, g_entries, npipes>>

Attached ==
    /\ At("configure") /\ d0 \notin Hubs
    /\ usb_free_pipe(top.pipe)
    /\ usbdev_register(d0) /\ NextPort(1)
    /\ UNCHANGED <<dev, maxaddr, npipes, stuck>>

\* A hub with power on all its ports: enumerate them before going on.
usb_hub_setup ==
    /\ At("configure") /\ d0 \in Hubs
    /\ stack' = <<usb_enumerate(d0), [top EXCEPT !.step = "hub"]>> \o Tail(stack)
    /\ UNCHANGED <<dev, maxaddr, g_entries, freelist, npipes, stuck>>

\* The hub stays attached when something was found behind it.
HubReturns ==
    /\ stack # <<>> /\ top.i > Len(Ports[top.hub]) /\ Len(stack) > 1
    /\ LET up == stack[2]
           h  == Ports[up.hub][up.i]
           n  == IF top.found # 0 THEN 1 ELSE 0
           go == [up EXCEPT !.i = @ + 1, !.step = "detect", !.pipe = 0, !.found = @ + n]
       IN  /\ stack' = <<go>> \o Tail(Tail(stack))
           /\ usb_free_pipe(up.pipe)
           /\ IF n = 1 THEN usbdev_register(h) /\ UNCHANGED <<dev, stuck>>
              ELSE /\ UNCHANGED g_entries
                   /\ \/ dev' = [dev EXCEPT ![h].on = FALSE] /\ stuck' = stuck \ {h}
                      \/ up.hub # 0 /\ dev' = dev /\ stuck' = stuck \cup {h}
    /\ UNCHANGED <<maxaddr, npipes>>

BusNext ==
    \/ \E ok \in BOOLEAN : detect(ok) \/ reset(ok)
    \/ NoAddress \/ AddressFails \/ usb_set_address
    \/ Unusable \/ Attached \/ usb_hub_setup \/ HubReturns

BusSpec == BusInit /\ [][BusNext]_busVars

-----------------------------------------------------------------------------
\* A registered device can be reached, at an address of its own: no two devices
\* that can be reached have the same address, also when a device has taken an
\* address whose number is then given to the next one (unless a port could not
\* be disabled), and a hub is not given up once something behind it is in use.
DevicesReached ==
    /\ \A d, f \in Devices \ stuck :
          (d # f /\ reached[d] /\ reached[f]) => dev[d].addr # dev[f].addr
    /\ \A k \in 1..Len(g_entries) : reached[g_entries[k]] /\ dev[g_entries[k]].addr # 0

\* The pipe of a device or hub that is being set up is nobody else's and is
\* not on the free list, however deep the hubs are.
PipesExclusive ==
    /\ \A i, j \in 1..Len(stack) :
          (stack[i].pipe # 0 /\ stack[i].pipe = stack[j].pipe) => i = j
    /\ \A i \in 1..Len(stack), k \in 1..Len(freelist) : stack[i].pipe # freelist[k]
    /\ \A j, k \in 1..Len(freelist) : freelist[j] = freelist[k] => j = k
=============================================================================
