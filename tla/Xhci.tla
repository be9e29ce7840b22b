-------------------------------- MODULE Xhci --------------------------------
(***************************************************************************)
(* The rings of usb3/xhci.c.  A thread puts requests on the "cmd" ring (it *)
(* stands for the command ring or for a control or bulk pipe) and waits in *)
(* xhci_event_wait; the timer tick, through usb_check_event, polls the     *)
(* interrupt pipe of a HID device on the "int" ring with interrupts off.   *)
(* Both drain the one event ring in xhci_process_events, the thread with   *)
(* interrupts on: a tick may fall between any two of its steps.  The       *)
(* controller takes and posts TRBs by their cycle bits at any time.        *)
(***************************************************************************)
EXTENDS Integers, Sequences, FiniteSets

CONSTANTS
    XHCI_RING_ITEMS,
    UserSets,      \* who uses the controller: subsets of {"thread", "tick"}
    TrbCounts,     \* how many TRBs a request may have
    MaxUnanswered, \* bound: TRBs on a ring without an answer, which the driver
                   \* does not check
    MaxRequests,   \* bound: requests of the thread
    MaxReports     \* bound: reports of the HID device

VARIABLES
    users,
    ring,      \* name |-> [trb, nidx, cs, eidx, evt]
    ctl,       \* name |-> [idx, cs, halted]: the controller's place in a ring
    evts,      \* the event ring's entries
    e,         \* the driver's place in it: [nidx, cs]
    erdp,      \* the place the controller was told
    post,      \* the controller's place in it: [idx, cs]
    posted,    \* events posted so far
    taken,     \* ghost: the last event the driver has processed
    hc_pc,     \* the thread: "idle", "scan", "apply", "advance" or "check"
    l,         \* its copies of nidx and cs in xhci_process_events
    asked,     \* the request it waits for
    bufused, buf,
    reports    \* the reports usb_poll_intr has returned

hcVars == <<users, ring, ctl, evts, e, erdp, post, posted, taken, hc_pc, l, asked,
          bufused, buf, reports>>

Rings == {"cmd", "int"}
Items == 0..(XHCI_RING_ITEMS - 1)
Flip(c) == 1 - c
Link == -1

HcInit ==
    /\ users \in UserSets
    /\ ring = [r \in Rings |-> [trb  |-> [i \in Items |-> [id |-> 0, ioc |-> FALSE, c |-> 0]],
                                nidx |-> 0, cs |-> 1, eidx |-> 0, evt |-> 0]]
    /\ ctl = [r \in Rings |-> [idx |-> 0, cs |-> 1, halted |-> FALSE]]
    /\ evts = [i \in Items |-> [r |-> "cmd", idx |-> 0, id |-> 0, n |-> 0, c |-> 0]]
    /\ e = [nidx |-> 0, cs |-> 1] /\ erdp = 0
    /\ post = [idx |-> 0, cs |-> 1] /\ posted = 0 /\ taken = 0
    /\ hc_pc = "idle" /\ l = e /\ asked = 0
    /\ bufused = FALSE /\ buf = 0 /\ reports = <<>>

-----------------------------------------------------------------------------
(* The driver's side of a ring                                             *)

xhci_trb_fill(q, id, ioc) == [q EXCEPT !.trb[q.nidx] = [id |-> id, ioc |-> ioc, c |-> q.cs]]

xhci_trb_queue(q, id, ioc) ==
    LET w == IF q.nidx >= XHCI_RING_ITEMS - 1
               THEN [xhci_trb_fill(q, Link, FALSE) EXCEPT !.nidx = 0, !.cs = Flip(q.cs)]
               ELSE q
    IN  [xhci_trb_fill(w, id, ioc) EXCEPT !.nidx = @ + 1]

xhci_ring_busy(q) == q.eidx # q.nidx

\* The TRBs put on a ring since the one its last event was about.
Unanswered(q) == (q.nidx - q.eidx) % (XHCI_RING_ITEMS - 1)

\* Fault: a finished request is recognised by any event on its ring.
Apply_Any(q, ev) == [q EXCEPT !.eidx = q.nidx, !.evt = ev.id]

\* What the event in entry i does to the ring it is about.
Apply(q, ev) == [q EXCEPT !.eidx = ev.idx + 1, !.evt = ev.id]

\* Fault: the event ring's cycle state is not flipped when it wraps.
Advance_Keep(p, k) == [p EXCEPT !.nidx = (@ + k) % XHCI_RING_ITEMS]

\* The place in the event ring k entries after p.
Advance(p, k) ==
    [nidx |-> (p.nidx + k) % XHCI_RING_ITEMS,
     cs   |-> IF p.nidx + k >= XHCI_RING_ITEMS THEN Flip(p.cs) ELSE p.cs]

Larger(a, b) == IF a < b THEN b ELSE a

-----------------------------------------------------------------------------
(* The thread: xhci_cmd_submit, xhci_send_pipe                             *)

\* A request is one TRB, or several of which the last one reports.
Submit(k) ==
    /\ "thread" \in users /\ hc_pc = "idle"
    /\ asked < MaxRequests /\ Unanswered(ring["cmd"]) + k <= MaxUnanswered
    /\ asked' = asked + 1
    /\ LET q == IF k = 1 THEN ring["cmd"] ELSE xhci_trb_queue(ring["cmd"], asked', FALSE)
       IN  ring' = [ring EXCEPT !["cmd"] = xhci_trb_queue(q, asked', TRUE)]
    /\ hc_pc' = "scan"
    /\ UNCHANGED <<users, ctl, evts, e, erdp, post, posted, taken, l, bufused, buf, reports>>

\* One round of xhci_process_events: look at the next entry; use it; move on.
Look ==
    /\ hc_pc = "scan"
    /\ l' = e
    /\ hc_pc' = IF evts[e.nidx].c = e.cs THEN "apply" ELSE "check"
    /\ UNCHANGED <<users, ring, ctl, evts, e, erdp, post, posted, taken, asked, bufused, buf, reports>>

Use ==
    /\ hc_pc = "apply" /\ hc_pc' = "advance"
    /\ LET ev == evts[l.nidx]
       IN  /\ ring' = [ring EXCEPT ![ev.r] = Apply(@, ev)]
           /\ taken' = Larger(taken, ev.n)
    /\ UNCHANGED <<users, ctl, evts, e, erdp, post, posted, l, asked, bufused, buf, reports>>

\* evts->cs is written only when the index wraps.
MoveOn ==
    /\ hc_pc = "advance" /\ hc_pc' = "scan"
    /\ LET p == Advance(l, 1)
       IN  /\ e' = [nidx |-> p.nidx, cs |-> IF p.nidx = 0 THEN p.cs ELSE e.cs]
           /\ erdp' = p.nidx
    /\ UNCHANGED <<users, ring, ctl, evts, post, posted, taken, l, asked, bufused, buf, reports>>

\* The ring is idle: return its last event's status.  Or the time is up.
Answered ==
    /\ hc_pc = "check" /\ ~xhci_ring_busy(ring["cmd"]) /\ hc_pc' = "idle"
    /\ UNCHANGED <<users, ring, ctl, evts, e, erdp, post, posted, taken, l, asked, bufused, buf, reports>>

NotYet ==
    /\ hc_pc = "check" /\ xhci_ring_busy(ring["cmd"])
    /\ hc_pc' \in {"scan", "idle"}
    /\ UNCHANGED <<users, ring, ctl, evts, e, erdp, post, posted, taken, l, asked, bufused, buf, reports>>

-----------------------------------------------------------------------------
(* The tick: usb_check_event, xhci_poll_intr                               *)

Entry(k) == evts[Advance(e, k).nidx]

\* With interrupts off the thread is out of the way: all events up to the
\* first entry of the wrong cycle are processed, and each ring keeps what the
\* last event about it says.
xhci_process_events ==
    LET fresh == {k \in Items : \A j \in 0..k : Entry(j).c = Advance(e, j).cs}
        n     == Cardinality(fresh)
        about(r) == {k \in fresh : Entry(k).r = r}
        last(r)  == Entry(CHOOSE k \in about(r) : \A j \in about(r) : j <= k)
    IN  [ring  |-> [r \in Rings |-> IF about(r) = {} THEN ring[r]
                                     ELSE Apply(ring[r], last(r))],
         e     |-> Advance(e, n),
         erdp  |-> IF n = 0 THEN erdp ELSE Advance(e, n).nidx,
         taken |-> IF n = 0 THEN taken ELSE Larger(taken, Entry(n - 1).n)]

\* The first poll only starts a transfer; a later one takes a report if there
\* is one, starts the next transfer and, by poll_nodes, finds the ring busy.
xhci_poll_intr ==
    LET s == xhci_process_events
        q == s.ring["int"]
    IN  /\ "tick" \in users
        /\ IF ~bufused
             THEN /\ ring' = [ring EXCEPT !["int"] = xhci_trb_queue(@, 0, TRUE)]
                  /\ bufused' = TRUE
                  /\ UNCHANGED <<e, erdp, taken, reports>>
             ELSE /\ e' = s.e /\ erdp' = s.erdp /\ taken' = s.taken
                  /\ IF xhci_ring_busy(q)
                       THEN ring' = s.ring /\ reports' = reports
                       ELSE /\ reports' = Append(reports, buf)
                            /\ ring' = [s.ring EXCEPT !["int"] = xhci_trb_queue(q, 0, TRUE)]
                  /\ UNCHANGED bufused
        /\ UNCHANGED <<users, ctl, evts, post, posted, hc_pc, l, asked, buf>>

-----------------------------------------------------------------------------
(* The controller                                                          *)

Ready(r) == ~ctl[r].halted /\ ring[r].trb[ctl[r].idx].c = ctl[r].cs

\* Entries are written up to the one before the driver's place.
EventRoom == (post.idx + 1) % XHCI_RING_ITEMS # erdp

Post(r) ==
    LET i == ctl[r].idx
    IN  /\ evts' = [evts EXCEPT ![post.idx] =
                      [r |-> r, idx |-> i, id |-> ring[r].trb[i].id, n |-> posted + 1,
                       c |-> post.cs]]
        /\ post' = IF post.idx + 1 = XHCI_RING_ITEMS
                     THEN [idx |-> 0, cs |-> Flip(post.cs)] ELSE [post EXCEPT !.idx = @ + 1]
        /\ posted' = posted + 1

FollowLink(r) ==
    /\ Ready(r) /\ ring[r].trb[ctl[r].idx].id = Link
    /\ ctl' = [ctl EXCEPT ![r].idx = 0, ![r].cs = Flip(@)]
    /\ UNCHANGED <<users, ring, evts, e, erdp, post, posted, taken, hc_pc, l, asked, bufused, buf, reports>>

\* A transfer on the interrupt pipe brings the device's next report.
Execute(r) ==
    LET t == ring[r].trb[ctl[r].idx]
    IN  /\ Ready(r) /\ t.id # Link
        /\ ctl' = [ctl EXCEPT ![r].idx = @ + 1]
        /\ IF t.ioc THEN EventRoom /\ Post(r) ELSE UNCHANGED <<evts, post, posted>>
        /\ IF r = "int" THEN buf < MaxReports /\ buf' = buf + 1 ELSE UNCHANGED buf
        /\ UNCHANGED <<users, ring, e, erdp, taken, hc_pc, l, asked, bufused, reports>>

\* A TRB fails: that is reported, and the controller leaves the ring alone.
Halt(r) ==
    /\ r = "cmd" /\ Ready(r) /\ ring[r].trb[ctl[r].idx].id # Link
    /\ EventRoom /\ Post(r)
    /\ ctl' = [ctl EXCEPT ![r].halted = TRUE]
    /\ UNCHANGED <<users, ring, e, erdp, taken, hc_pc, l, asked, bufused, buf, reports>>

Thread == (\E k \in TrbCounts : Submit(k)) \/ Look \/ Use \/ MoveOn \/ Answered \/ NotYet
Controller == \E r \in Rings : FollowLink(r) \/ Execute(r) \/ Halt(r)
HcNext == Thread \/ xhci_poll_intr \/ Controller

HcFairness ==
    /\ WF_hcVars(Look \/ Use \/ MoveOn \/ Answered)
    /\ WF_hcVars(NotYet)
    /\ WF_hcVars(xhci_poll_intr)
    /\ \A r \in Rings : WF_hcVars(FollowLink(r) \/ Execute(r))

HcSpec == HcInit /\ [][HcNext]_hcVars /\ HcFairness

-----------------------------------------------------------------------------
\* The status xhci_event_wait returns is that of the request just submitted,
\* also when earlier ones timed out and were finished late, when the ring has
\* wrapped since, and when a request of several TRBs fails half-way.
OwnStatus == (hc_pc = "check" /\ ~xhci_ring_busy(ring["cmd"])) => ring["cmd"].evt = asked

\* "Idempotent with the poller because of the TRB cycle bit": whoever drains
\* the event ring, each report of the HID device is returned once, in order.
\* It holds unless a tick falls into a drain of the thread's.
ReportsInOrder == \A k \in 1..Len(reports) : reports[k] = k

\* xhci_process_events leaves no event in the ring for ever, however often
\* the ring and its cycle bit have gone round.
EventsProcessed == []<>(posted = taken \/ (hc_pc = "idle" /\ "tick" \notin users))
=============================================================================
