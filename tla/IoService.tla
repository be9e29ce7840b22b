----------------------------- MODULE IoService -----------------------------
(***************************************************************************)
(* The driver registry of iokit/IOServiceFamily/io_service.c.  A           *)
(* descriptor's init and exit are foreign code: init may succeed or fail,  *)
(* and while it runs it may register further services and start them, so   *)
(* calls nest, possibly below the loop of io_service_start_all.  Exit      *)
(* callbacks are taken not to come back to the registry.                   *)
(***************************************************************************)
EXTENDS Integers, Sequences

CONSTANTS
    Services,        \* the descriptors
    Name,            \* descriptor -> name; two descriptors may share one
    IO_SERVICE_MAX

VARIABLES
    registry,        \* registry[0..reg_count-1]
    registered, started,
    calls,           \* the descriptors whose init is running, innermost last
    loop,            \* what runs over the registry, and its index
    failed,          \* history: init failed, in this start_all if one runs
    up               \* history: init calls that succeeded minus exit calls

serviceVars == <<registry, registered, started, calls, loop, failed, up>>

Idle == [op |-> "none", i |-> 0, n |-> 0]
ServicesInit ==
    /\ registry = <<>>
    /\ registered = [s \in Services |-> FALSE]
    /\ started = [s \in Services |-> FALSE]
    /\ calls = <<>> /\ loop = Idle
    /\ failed = {}
    /\ up = [s \in Services |-> 0]

InRegistry(s) == \E k \in DOMAIN registry : registry[k] = s

\* io_service_find: the first entry of that name.
FoundAt(s, k) ==
    /\ registry[k] = s
    /\ \A j \in 1..(k - 1) : Name[registry[j]] # Name[s]
Finds(s) == \E k \in DOMAIN registry : FoundAt(s, k)

InCallback == calls # <<>>
Running(s) == \E k \in DOMAIN calls : calls[k] = s
\* The registry is called by the boot code or by an init callback.
MayCall == InCallback \/ loop = Idle

\* Registration is refused when the registry is full or has the name.
io_service_register(s) ==
    /\ MayCall
    /\ Len(registry) < IO_SERVICE_MAX
    /\ \A k \in DOMAIN registry : Name[registry[k]] # Name[s]
    /\ registered' = [registered EXCEPT ![s] = TRUE]
    /\ started' = [started EXCEPT ![s] = FALSE]
    /\ registry' = Append(registry, s)
    /\ UNCHANGED <<calls, loop, failed, up>>

\* Call init; what io_service_start does after it is io_service_start_done.
CallInit(s) ==
    /\ Finds(s) /\ ~started[s] /\ ~Running(s)
    /\ calls' = Append(calls, s)
    /\ UNCHANGED <<registry, registered, started, failed, up>>

io_service_start(s) ==
    /\ MayCall
    /\ CallInit(s)
    /\ UNCHANGED loop

io_service_start_done(ok) ==
    /\ InCallback
    /\ LET s == calls[Len(calls)]
       IN  /\ started' = [started EXCEPT ![s] = ok]
           /\ up' = IF ok THEN [up EXCEPT ![s] = @ + 1] ELSE up
           /\ failed' = IF ok THEN failed \ {s} ELSE failed \cup {s}
    /\ calls' = SubSeq(calls, 1, Len(calls) - 1)
    /\ UNCHANGED <<registry, registered, loop>>

Stopped(s) ==
    /\ started' = [started EXCEPT ![s] = FALSE]
    /\ up' = [up EXCEPT ![s] = @ - 1]

io_service_stop(s) ==
    /\ ~InCallback /\ loop = Idle
    /\ Finds(s) /\ started[s]
    /\ Stopped(s)
    /\ UNCHANGED <<registry, registered, calls, loop, failed>>

\* The entries behind the k-th move up.
Removed(r, k) == SubSeq(r, 1, k - 1) \o SubSeq(r, k + 1, Len(r))

io_service_unregister(s) ==
    /\ ~InCallback /\ loop = Idle
    /\ \E k \in DOMAIN registry : FoundAt(s, k) /\ registry' = Removed(registry, k)
    /\ IF started[s] THEN Stopped(s) ELSE UNCHANGED <<started, up>>
    /\ registered' = [registered EXCEPT ![s] = FALSE]
    /\ UNCHANGED <<calls, loop, failed>>

-----------------------------------------------------------------------------
\* A call of start_all by the boot code.  i is the index it looks at next.
io_service_start_all ==
    /\ ~InCallback /\ loop = Idle
    /\ loop' = [op |-> "start_all", i |-> 1, n |-> Len(registry)]
    /\ failed' = {}
    /\ UNCHANGED <<registry, registered, started, calls, up>>

\* Fault: the number of entries is read once, before the loop.
LoopEnd_Snapshot == loop.n

\* reg_count is read again on every round.
LoopEnd == Len(registry)

io_service_start_all_next ==
    /\ loop.op = "start_all" /\ ~InCallback /\ loop.i <= LoopEnd
    /\ loop' = [loop EXCEPT !.i = @ + 1]
    /\ IF started[registry[loop.i]]
         THEN UNCHANGED <<registry, registered, started, calls, failed, up>>
         ELSE CallInit(registry[loop.i])

io_service_start_all_return ==
    /\ loop.op = "start_all" /\ ~InCallback /\ loop.i > LoopEnd
    /\ loop' = Idle
    /\ UNCHANGED <<registry, registered, started, calls, failed, up>>

\* The entries stop_all visits, from the last to the first.
StopFrom == {registry[k] : k \in 1..Len(registry)}

io_service_stop_all ==
    /\ ~InCallback /\ loop = Idle
    /\ started' = [s \in Services |-> started[s] /\ s \notin StopFrom]
    /\ up' = [s \in Services |-> IF started[s] /\ s \in StopFrom THEN up[s] - 1 ELSE up[s]]
    /\ UNCHANGED <<registry, registered, calls, loop, failed>>

ServicesNext ==
    \/ \E s \in Services :
         \/ io_service_register(s) \/ io_service_unregister(s)
         \/ io_service_start(s) \/ io_service_stop(s)
    \/ \E ok \in BOOLEAN : io_service_start_done(ok)
    \/ io_service_start_all \/ io_service_start_all_next \/ io_service_start_all_return
    \/ io_service_stop_all

ServicesSpec == ServicesInit /\ [][ServicesNext]_serviceVars

-----------------------------------------------------------------------------
\* When start_all returns, every registered service is running or its init has
\* failed, those registered by an init callback during the loop included; when
\* stop_all returns nothing is running, not even a service that was taken out of
\* the registry, failed on the way, or was started by another's callback.
AllComplete ==
    [][/\ io_service_start_all_return =>
            \A k \in DOMAIN registry : started[registry[k]] \/ registry[k] \in failed
       /\ io_service_stop_all => \A s \in Services : up'[s] = 0]_serviceVars
=============================================================================
