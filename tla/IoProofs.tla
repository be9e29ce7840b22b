------------------------------ MODULE IoProofs ------------------------------
(***************************************************************************)
(* Proofs about the driver registry, for every set of services; about the  *)
(* keyboard ring, for every size of it, with or without a second producer  *)
(* in the kernel thread; and about the blocks an AHCI port moves, for every *)
(* size of the disk and of a command and any failures of the disk.         *)
(***************************************************************************)
EXTENDS IoService, KbdRing, AhciPort, Lemmas

\* A leaf that names no prover is tried with SMT, then with Zenon, for at most 20 seconds each.
USE SMTT(20), ZenonT(20)

-----------------------------------------------------------------------------
(* The driver registry, IoService                                          *)

SvcTypeOK ==
    /\ registry \in Seq(Services) /\ calls \in Seq(Services)
    /\ started \in [Services -> BOOLEAN] /\ up \in [Services -> Int]
    /\ failed \subseteq Services
    /\ loop \in [op : {"none", "start_all"}, i : Nat, n : Nat]
    /\ loop.op = "none" => loop = Idle

OneOfAName ==
    \A j, k \in 1..Len(registry) : Name[registry[j]] = Name[registry[k]] => j = k

\* A service runs once and is in the registry; one whose init is under way is
\* there too, has not been started, and is called once.
Counted ==
    /\ \A s \in Services : up[s] = (IF started[s] THEN 1 ELSE 0)
    /\ \A s \in Services : started[s] => InRegistry(s)
    /\ \A k \in 1..Len(calls) : InRegistry(calls[k]) /\ ~started[calls[k]]
    /\ \A j, k \in 1..Len(calls) : calls[j] = calls[k] => j = k

\* What the loop of start_all has behind it is running, has failed, or is an
\* init that is under way.
Behind ==
    loop.op = "start_all" =>
        /\ loop.i >= 1 /\ loop.i =< Len(registry) + 1
        /\ \A k \in 1..(loop.i - 1) :
              started[registry[k]] \/ registry[k] \in failed \/ Running(registry[k])

SvcInv == SvcTypeOK /\ OneOfAName /\ Counted /\ Behind

\* Being in the registry, and having an init under way, by position.
LEMMA Positions ==
    ASSUME SvcTypeOK
    PROVE  /\ \A s : InRegistry(s) <=> \E k \in 1..Len(registry) : registry[k] = s
           /\ \A s : Running(s) <=> \E k \in 1..Len(calls) : calls[k] = s
<1>1. DOMAIN registry = 1..Len(registry) /\ DOMAIN calls = 1..Len(calls)
  BY DEF SvcTypeOK
<1> QED
  BY <1>1, Zenon DEF InRegistry, Running

LEMMA SvcInitInv == ServicesInit => SvcInv
BY DEF ServicesInit, SvcInv, SvcTypeOK, OneOfAName, Counted, Behind, Idle

LEMMA RegisterKeeps ==
    ASSUME SvcInv, NEW s \in Services, io_service_register(s)
    PROVE  SvcInv'
<1> USE DEF SvcInv
<1>1. /\ \A k \in 1..Len(registry) : Name[registry[k]] # Name[s]
      /\ started' = [started EXCEPT ![s] = FALSE]
      /\ registry' = Append(registry, s)
      /\ UNCHANGED <<calls, loop, failed, up>>
  BY DEF io_service_register, SvcTypeOK
<1>2. /\ Len(registry) \in Nat /\ Len(registry') = Len(registry) + 1
      /\ registry' \in Seq(Services)
      /\ \A k \in 1..Len(registry) : registry'[k] = registry[k]
      /\ registry'[Len(registry) + 1] = s
  BY <1>1 DEF SvcTypeOK
<1>3. ~InRegistry(s)
  BY <1>1, Positions, Zenon
<1>4. started' = started
  BY <1>1, <1>3 DEF Counted, SvcTypeOK
<1>5. SvcTypeOK'
  BY <1>1, <1>2, <1>4, Zenon DEF SvcTypeOK
<1>6. OneOfAName'
  <2> SUFFICES ASSUME NEW j \in 1..Len(registry'), NEW k \in 1..Len(registry'),
                      Name[registry'[j]] = Name[registry'[k]]
               PROVE  j = k
    BY Zenon DEF OneOfAName
  <2>1. CASE j \in 1..Len(registry) /\ k \in 1..Len(registry)
    BY <1>2, <2>1, Zenon DEF OneOfAName
  <2>2. CASE j = Len(registry) + 1 /\ k \in 1..Len(registry)
    BY <1>1, <1>2, <2>2, Zenon
  <2>3. CASE j \in 1..Len(registry) /\ k = Len(registry) + 1
    BY <1>1, <1>2, <2>3, Zenon
  <2> QED
    BY <1>2, <2>1, <2>2, <2>3
<1>7. \A t : InRegistry(t) => InRegistry(t)'
  <2>1. DOMAIN registry' = 1..Len(registry')
    BY <1>2
  <2> QED
    BY <1>2, <2>1, Positions DEF InRegistry
<1>8. Counted'
  BY <1>1, <1>4, <1>7 DEF Counted, SvcTypeOK
<1>9. Behind'
  <2> SUFFICES ASSUME loop.op = "start_all"
               PROVE  /\ loop.i >= 1 /\ loop.i =< Len(registry') + 1
                      /\ \A k \in 1..(loop.i - 1) :
                           started[registry'[k]] \/ registry'[k] \in failed \/ Running(registry'[k])
    BY <1>1, <1>4, Zenon DEF Behind, Running
  <2>1. /\ loop.i \in Nat /\ loop.i >= 1 /\ loop.i =< Len(registry) + 1
        /\ \A k \in 1..(loop.i - 1) :
             started[registry[k]] \/ registry[k] \in failed \/ Running(registry[k])
    BY Zenon DEF Behind, SvcTypeOK
  <2>2. loop.i =< Len(registry') + 1 /\ \A k \in 1..(loop.i - 1) : k \in 1..Len(registry)
    BY <1>2, <2>1
  <2> QED
    BY <1>2, <2>1, <2>2, Zenon
<1> QED
  BY <1>5, <1>6, <1>8, <1>9, Zenon

\* An init that is called joins the calls, and is not behind the others.
LEMMA CallKeeps ==
    ASSUME SvcInv, NEW s \in Services, CallInit(s),
           loop' \in [op : {"none", "start_all"}, i : Nat, n : Nat],
           loop'.op = "none" => loop' = Idle
    PROVE  /\ SvcTypeOK' /\ OneOfAName' /\ Counted'
           /\ \A t : Running(t) \/ t = s => Running(t)'
<1> USE DEF SvcInv
<1>1. /\ InRegistry(s) /\ ~started[s] /\ \A k \in 1..Len(calls) : calls[k] # s
      /\ calls' = Append(calls, s)
      /\ UNCHANGED <<registry, registered, started, failed, up>>
  <2>1. DOMAIN calls = 1..Len(calls)
    BY DEF SvcTypeOK
  <2>2. InRegistry(s) /\ ~started[s] /\ \A k \in 1..Len(calls) : calls[k] # s
    BY <2>1, Zenon DEF CallInit, Finds, FoundAt, InRegistry, Running
  <2> QED
    BY <2>2, Zenon DEF CallInit
<1>2. /\ Len(calls) \in Nat /\ Len(calls') = Len(calls) + 1
      /\ calls' \in Seq(Services) /\ DOMAIN calls' = 1..Len(calls')
      /\ \A k \in 1..Len(calls) : calls'[k] = calls[k]
      /\ calls'[Len(calls) + 1] = s
  BY <1>1 DEF SvcTypeOK
<1>3. SvcTypeOK' /\ OneOfAName'
  BY <1>1, <1>2, Zenon DEF SvcTypeOK, OneOfAName
<1>4. \A k \in 1..Len(calls') : InRegistry(calls'[k]) /\ ~started[calls'[k]]
  BY <1>1, <1>2 DEF Counted
<1>5. \A j, k \in 1..Len(calls') : calls'[j] = calls'[k] => j = k
  <2> SUFFICES ASSUME NEW j \in 1..Len(calls'), NEW k \in 1..Len(calls'), calls'[j] = calls'[k]
               PROVE  j = k
    BY Zenon
  <2>1. CASE j \in 1..Len(calls) /\ k \in 1..Len(calls)
    BY <1>2, <2>1, Zenon DEF Counted
  <2>2. CASE j = Len(calls) + 1 /\ k \in 1..Len(calls)
    BY <1>1, <1>2, <2>2, Zenon
  <2>3. CASE j \in 1..Len(calls) /\ k = Len(calls) + 1
    BY <1>1, <1>2, <2>3, Zenon
  <2> QED
    BY <1>2, <2>1, <2>2, <2>3
<1>6. Counted'
  BY <1>1, <1>4, <1>5 DEF Counted, InRegistry
<1>7. \A t : Running(t) \/ t = s => Running(t)'
  BY <1>2, Positions DEF Running
<1> QED
  BY <1>3, <1>6, <1>7, Zenon

\* A sequence without its last element.
LEMMA FrontIs ==
    ASSUME NEW S, NEW q \in Seq(S), q # <<>>
    PROVE  LET f == SubSeq(q, 1, Len(q) - 1)
           IN  /\ f \in Seq(S) /\ Len(f) = Len(q) - 1 /\ DOMAIN f = 1..(Len(q) - 1)
               /\ \A k \in 1..(Len(q) - 1) : f[k] = q[k]
<1>1. Len(q) \in Nat \ {0}
  OBVIOUS
<1>2. PICK n \in Nat : n = Len(q) - 1
  BY <1>1
<1>3. SubSeq(q, 1, n) \in Seq(S) /\ Len(SubSeq(q, 1, n)) = n
  BY <1>1, <1>2
<1>4. \A k \in 1..n : SubSeq(q, 1, n)[k] = q[k]
  BY <1>1, <1>2
<1> QED
  BY <1>2, <1>3, <1>4

\* The init that was called last has returned.
LEMMA ReturnKeeps ==
    ASSUME SvcInv, NEW ok \in BOOLEAN, io_service_start_done(ok)
    PROVE  SvcInv'
<1> USE DEF SvcInv
<1> DEFINE n == Len(calls)
           s == calls[n]
<1>1. /\ n \in Nat \ {0} /\ s \in Services
      /\ calls' \in Seq(Services) /\ Len(calls') = n - 1 /\ DOMAIN calls' = 1..(n - 1)
      /\ \A k \in 1..(n - 1) : calls'[k] = calls[k]
  <2>1. calls \in Seq(Services) /\ calls # <<>> /\ calls' = SubSeq(calls, 1, Len(calls) - 1)
    BY Zenon DEF io_service_start_done, InCallback, SvcTypeOK
  <2>2. n \in Nat \ {0} /\ s \in Services
    BY <2>1
  <2> QED
    BY <2>1, <2>2, FrontIs, Zenon
<1>2. /\ started' = [started EXCEPT ![s] = ok]
      /\ up' = (IF ok THEN [up EXCEPT ![s] = @ + 1] ELSE up)
      /\ failed' = (IF ok THEN failed \ {s} ELSE failed \cup {s})
      /\ UNCHANGED <<registry, registered, loop>>
  BY Zenon DEF io_service_start_done
<1>3. InRegistry(s) /\ ~started[s] /\ \A k \in 1..(n - 1) : calls[k] # s
  BY <1>1 DEF Counted
<1> HIDE DEF s, n
<1>4. SvcTypeOK' /\ OneOfAName'
  BY <1>1, <1>2 DEF SvcTypeOK, OneOfAName
<1>5. /\ \A t \in Services : t # s => started'[t] = started[t] /\ up'[t] = up[t]
      /\ started'[s] = ok /\ up'[s] = (IF ok THEN 1 ELSE 0)
  BY <1>1, <1>2, <1>3 DEF SvcTypeOK, Counted
<1>6. Counted'
  <2>1. \A t : InRegistry(t)' <=> InRegistry(t)
    BY <1>2, Zenon DEF InRegistry
  <2>2. \A t \in Services : /\ up'[t] = (IF started'[t] THEN 1 ELSE 0)
                            /\ started'[t] => InRegistry(t)
    BY <1>3, <1>5, Zenon DEF Counted
  <2>3. \A k \in 1..(n - 1) : /\ calls'[k] \in Services
                              /\ InRegistry(calls'[k]) /\ ~started'[calls'[k]]
    <3> SUFFICES ASSUME NEW k \in 1..(n - 1)
                 PROVE  calls'[k] \in Services /\ InRegistry(calls'[k]) /\ ~started'[calls'[k]]
      BY Zenon
    <3>1. k \in 1..Len(calls) /\ calls'[k] = calls[k] /\ calls[k] # s
      BY <1>1, <1>3 DEF n
    <3>2. calls[k] \in Services /\ InRegistry(calls[k]) /\ ~started[calls[k]]
      BY <3>1 DEF Counted, SvcTypeOK
    <3> QED
      BY <1>5, <3>1, <3>2, Zenon
  <2>4. \A j, k \in 1..(n - 1) : calls'[j] = calls'[k] => j = k
    BY <1>1 DEF Counted, n
  <2> QED
    BY <1>1, <2>1, <2>2, <2>3, <2>4, Zenon DEF Counted
<1>7. Behind'
  <2> SUFFICES ASSUME loop.op = "start_all", NEW k \in 1..(loop.i - 1)
               PROVE  started'[registry[k]] \/ registry[k] \in failed' \/ Running(registry[k])'
    BY <1>2, Zenon DEF Behind
  <2>1. registry[k] \in Services
    BY DEF Behind, SvcTypeOK
  <2>2. CASE registry[k] = s
    BY <1>2, <1>5, <2>2, Zenon
  <2>3. CASE registry[k] # s /\ ~Running(registry[k])
    BY <1>2, <1>5, <2>1, <2>3, Zenon DEF Behind
  <2>4. CASE registry[k] # s /\ Running(registry[k])
    <3>1. PICK j \in 1..Len(calls) : calls[j] = registry[k]
      BY <2>4, Positions, Zenon
    <3>2. j \in 1..(n - 1)
      BY <1>1, <2>4, <3>1 DEF s, n
    <3>3. Running(registry[k])'
      BY <1>1, <1>2, <3>1, <3>2, Zenon DEF Running
    <3> QED
      BY <3>3, Zenon
  <2> QED
    BY <2>2, <2>3, <2>4, Zenon
<1> QED
  BY <1>4, <1>6, <1>7, Zenon

\* Stopping takes a running service out of the count.
LEMMA StopKeeps ==
    ASSUME SvcInv, NEW s \in Services, io_service_stop(s)
    PROVE  SvcInv'
<1> USE DEF SvcInv
<1>1. /\ calls = <<>> /\ loop = Idle /\ started[s]
      /\ started' = [started EXCEPT ![s] = FALSE]
      /\ up' = [up EXCEPT ![s] = @ - 1]
      /\ UNCHANGED <<registry, registered, calls, loop, failed>>
  BY Zenon DEF io_service_stop, Stopped, InCallback
<1>2. SvcTypeOK' /\ OneOfAName' /\ Behind'
  BY <1>1 DEF SvcTypeOK, OneOfAName, Behind, Idle
<1>3. Counted'
  <2>1. /\ \A t \in Services : t # s => started'[t] = started[t] /\ up'[t] = up[t]
        /\ started'[s] = FALSE /\ up'[s] = 0
    BY <1>1 DEF SvcTypeOK, Counted
  <2>2. \A t : InRegistry(t)' <=> InRegistry(t)
    BY <1>1, Zenon DEF InRegistry
  <2>3. Len(calls') = 0
    BY <1>1, Zenon
  <2> QED
    BY <2>1, <2>2, <2>3 DEF Counted
<1> QED
  BY <1>2, <1>3, Zenon

\* The entries behind the one taken out move down by one.
LEMMA RemovedAt ==
    ASSUME NEW S, NEW r \in Seq(S), NEW k \in 1..Len(r)
    PROVE  /\ Removed(r, k) \in Seq(S) /\ Len(Removed(r, k)) = Len(r) - 1
           /\ \A j \in 1..(Len(r) - 1) :
                 Removed(r, k)[j] = (IF j < k THEN r[j] ELSE r[j + 1])
<1> DEFINE a == SubSeq(r, 1, k - 1)
           b == SubSeq(r, k + 1, Len(r))
<1>1. Len(r) \in Nat
  OBVIOUS
<1>2. a \in Seq(S) /\ Len(a) = k - 1 /\ \A j \in 1..(k - 1) : a[j] = r[j]
  OBVIOUS
<1>3. b \in Seq(S) /\ Len(b) = Len(r) - k /\ \A j \in 1..(Len(r) - k) : b[j] = r[k + j]
  OBVIOUS
<1> HIDE DEF a, b
<1>4. /\ a \o b \in Seq(S) /\ Len(a \o b) = Len(r) - 1
      /\ \A j \in 1..(Len(r) - 1) : (a \o b)[j] = (IF j < k THEN a[j] ELSE b[j - (k - 1)])
  <2>0. a \in Seq(S) /\ b \in Seq(S)
    BY <1>2, <1>3, Zenon
  <2>1. a \o b \in Seq(S) /\ Len(a \o b) = Len(a) + Len(b)
    BY <2>0
  <2>2. Len(a) + Len(b) = Len(r) - 1
    BY <1>1, <1>2, <1>3
  <2>3. \A j \in 1..(Len(a) + Len(b)) :
          (a \o b)[j] = (IF j =< Len(a) THEN a[j] ELSE b[j - Len(a)])
    BY <2>0
  <2>4. \A j \in 1..(Len(r) - 1) : j =< k - 1 <=> j < k
    BY <1>1
  <2> QED
    BY <1>2, <2>1, <2>2, <2>3, <2>4, Zenon
<1>5. \A j \in 1..(Len(r) - 1) : j >= k => b[j - (k - 1)] = r[j + 1]
  <2> SUFFICES ASSUME NEW j \in 1..(Len(r) - 1), j >= k
               PROVE  b[j - (k - 1)] = r[j + 1]
    BY Zenon
  <2>1. j - (k - 1) \in 1..(Len(r) - k) /\ k + (j - (k - 1)) = j + 1
    BY <1>1
  <2> QED
    BY <1>3, <2>1, Zenon
<1>6. \A j \in 1..(Len(r) - 1) : j < k => a[j] = r[j]
  BY <1>2
<1>7. Removed(r, k) = a \o b
  BY Zenon DEF Removed, a, b
<1>8. ASSUME NEW j \in 1..(Len(r) - 1)
      PROVE  Removed(r, k)[j] = (IF j < k THEN r[j] ELSE r[j + 1])
  <2>1. CASE j < k
    BY <1>4, <1>6, <1>7, <2>1, Zenon
  <2>2. CASE ~(j < k)
    <3>1. j >= k
      BY <1>1, <2>2
    <3> QED
      BY <1>4, <1>5, <1>7, <2>2, <3>1, Zenon
  <2> QED
    BY <2>1, <2>2, Zenon
<1> QED
  BY <1>4, <1>7, <1>8, Zenon

LEMMA UnregisterKeeps ==
    ASSUME SvcInv, NEW s \in Services, io_service_unregister(s)
    PROVE  SvcInv'
<1> USE DEF SvcInv
<1>1. PICK k \in 1..Len(registry) : registry[k] = s /\ registry' = Removed(registry, k)
  BY DEF io_service_unregister, FoundAt, SvcTypeOK
<1>2. /\ calls = <<>> /\ loop = Idle /\ UNCHANGED <<calls, loop, failed>>
      /\ IF started[s] THEN /\ started' = [started EXCEPT ![s] = FALSE]
                            /\ up' = [up EXCEPT ![s] = @ - 1]
                       ELSE UNCHANGED <<started, up>>
  BY Zenon DEF io_service_unregister, Stopped, InCallback
<1>3. /\ \A t \in Services : t # s => started'[t] = started[t] /\ up'[t] = up[t]
      /\ started'[s] = FALSE /\ up'[s] = 0
      /\ started' \in [Services -> BOOLEAN] /\ up' \in [Services -> Int]
  <2>1. /\ started \in [Services -> BOOLEAN] /\ up \in [Services -> Int]
        /\ up[s] = (IF started[s] THEN 1 ELSE 0)
    BY Zenon DEF SvcTypeOK, Counted
  <2>2. CASE started[s]
    <3>1. up[s] = 1 /\ up' = [up EXCEPT ![s] = @ - 1]
      BY <1>2, <2>1, <2>2, Zenon
    <3>2. up'[s] = 0 /\ up' \in [Services -> Int] /\ \A t \in Services : t # s => up'[t] = up[t]
      BY <2>1, <3>1
    <3>3. /\ started'[s] = FALSE /\ started' \in [Services -> BOOLEAN]
          /\ \A t \in Services : t # s => started'[t] = started[t]
      BY <1>2, <2>1, <2>2, Zenon
    <3> QED
      BY <3>2, <3>3, Zenon
  <2>3. CASE ~started[s]
    <3>1. started[s] = FALSE /\ UNCHANGED <<started, up>>
      BY <1>2, <2>1, <2>3, Zenon
    <3> QED
      BY <2>1, <3>1, Zenon
  <2> QED
    BY <2>2, <2>3, Zenon
<1> DEFINE n == Len(registry)
           from(j) == IF j < k THEN j ELSE j + 1
<1>4. /\ n \in Nat \ {0} /\ registry' \in Seq(Services) /\ Len(registry') = n - 1
      /\ \A j \in 1..(n - 1) : from(j) \in 1..n /\ registry'[j] = registry[from(j)]
  <2>1. registry \in Seq(Services)
    BY Zenon DEF SvcTypeOK
  <2>2. /\ Removed(registry, k) \in Seq(Services) /\ Len(Removed(registry, k)) = Len(registry) - 1
        /\ \A j \in 1..(Len(registry) - 1) :
               Removed(registry, k)[j] = (IF j < k THEN registry[j] ELSE registry[j + 1])
    BY <2>1, RemovedAt, Zenon
  <2>3. n \in Nat \ {0} /\ \A j \in 1..(n - 1) : from(j) \in 1..n
    BY <2>1
  <2> QED
    BY <1>1, <2>2, <2>3, Zenon
<1>5. SvcTypeOK' /\ Behind'
  BY <1>2, <1>3, <1>4, Zenon DEF SvcTypeOK, Behind, Idle
<1>6. OneOfAName'
  <2> SUFFICES ASSUME NEW h \in 1..(n - 1), NEW j \in 1..(n - 1),
                      Name[registry'[h]] = Name[registry'[j]]
               PROVE  h = j
    BY <1>4, Zenon DEF OneOfAName
  <2>1. from(h) = from(j)
    <3>1. /\ from(h) \in 1..Len(registry) /\ from(j) \in 1..Len(registry)
          /\ registry'[h] = registry[from(h)] /\ registry'[j] = registry[from(j)]
      BY <1>4, Zenon
    <3> HIDE DEF from
    <3> QED
      BY <3>1, Zenon DEF OneOfAName
  <2> QED
    BY <2>1
<1>7. Counted'
  <2>1. ASSUME NEW t \in Services, started'[t]
        PROVE  InRegistry(t)'
    <3>1. t # s /\ started[t]
      BY <1>3, <2>1, Zenon
    <3>2. PICK j \in 1..n : registry[j] = t
      BY <3>1, Positions, Zenon DEF Counted
    <3>3. j # k
      BY <1>1, <3>1, <3>2, Zenon
    <3>4. \E h \in 1..(n - 1) : registry'[h] = t
      <4>1. CASE j < k
        BY <1>4, <3>2, <4>1
      <4>2. CASE j > k
        <5>1. j - 1 \in 1..(n - 1) /\ from(j - 1) = j
          BY <1>4, <4>2
        <5> QED
          BY <1>4, <3>2, <5>1, Zenon
      <4> QED
        BY <1>4, <3>3, <4>1, <4>2
    <3>5. DOMAIN registry' = 1..(n - 1)
      BY <1>4
    <3> QED
      BY <3>4, <3>5, Zenon DEF InRegistry
  <2>2. Len(calls') = 0
    BY <1>2, Zenon
  <2> QED
    BY <1>3, <2>1, <2>2 DEF Counted
<1> QED
  BY <1>5, <1>6, <1>7, Zenon

\* The loop of start_all goes past an entry that runs, or calls its init.
LEMMA LoopKeeps ==
    ASSUME SvcInv, io_service_start_all_next
    PROVE  SvcInv'
<1> USE DEF SvcInv
<1> DEFINE s == registry[loop.i]
<1>1. /\ loop.op = "start_all" /\ loop.i =< Len(registry) /\ loop.i \in 1..Len(registry)
      /\ loop' = [loop EXCEPT !.i = @ + 1] /\ s \in Services
  BY DEF io_service_start_all_next, LoopEnd, Behind, SvcTypeOK
<1>2. /\ loop' \in [op : {"none", "start_all"}, i : Nat, n : Nat]
      /\ loop'.op = "start_all" /\ loop'.i = loop.i + 1 /\ loop.i \in Nat
  <2>1. loop \in [op : {"none", "start_all"}, i : Nat, n : Nat]
    BY Zenon DEF SvcTypeOK
  <2>2. loop' = [op |-> loop.op, i |-> loop.i + 1, n |-> loop.n]
    BY <1>1, <2>1, Zenon
  <2>3. loop.i \in Nat /\ loop.i + 1 \in Nat /\ loop.n \in Nat
    BY <2>1
  <2> QED
    BY <1>1, <2>2, <2>3, Zenon
<1> HIDE DEF s
<1>3. CASE started[s]
  <2>1. UNCHANGED <<registry, registered, started, calls, failed, up>>
    BY <1>3, Zenon DEF io_service_start_all_next, s
  <2>2. \A k \in 1..(loop'.i - 1) : k \in 1..(loop.i - 1) \/ k = loop.i
    BY <1>2
  <2>3. Behind'
    <3>1. loop'.i >= 1 /\ loop'.i =< Len(registry') + 1
      BY <1>1, <1>2, <2>1 DEF SvcTypeOK
    <3>2. \A t : Running(t)' <=> Running(t)
      BY <2>1, Zenon DEF Running
    <3>3. \A k \in 1..(loop'.i - 1) :
            started[registry[k]] \/ registry[k] \in failed \/ Running(registry[k])
      BY <1>1, <1>3, <2>2, Zenon DEF Behind, s
    <3>4. \A k : Running(registry[k])' <=> Running(registry[k])
      BY <2>1, Zenon DEF Running
    <3> QED
      BY <2>1, <3>1, <3>3, <3>4, Zenon DEF Behind
  <2>4. SvcTypeOK' /\ OneOfAName' /\ Counted'
    BY <1>2, <2>1 DEF SvcTypeOK, OneOfAName, Counted, InRegistry
  <2> QED
    BY <2>3, <2>4, Zenon
<1>4. CASE ~started[s]
  <2>1. CallInit(s) /\ UNCHANGED <<registry, started, failed>>
    BY <1>4, Zenon DEF io_service_start_all_next, CallInit, s
  <2>2. /\ SvcTypeOK' /\ OneOfAName' /\ Counted'
        /\ \A t : Running(t) \/ t = s => Running(t)'
    BY <1>1, <1>2, <2>1, CallKeeps, Zenon
  <2>3. Behind'
    <3>0. \A k : Running(registry[k]) \/ registry[k] = s => Running(registry[k])'
      <4> SUFFICES ASSUME NEW k, Running(registry[k]) \/ registry[k] = s
                   PROVE  Running(registry[k])'
        BY Zenon
      <4>1. PICK t : t = registry[k]
        BY Zenon
      <4>2. Running(t)' /\ registry'[k] = t
        BY <2>1, <2>2, <4>1, Zenon
      <4> QED
        BY <4>2, Zenon DEF Running
    <3> SUFFICES ASSUME NEW k \in 1..(loop'.i - 1)
                 PROVE  started[registry[k]] \/ registry[k] \in failed \/ Running(registry[k])'
      BY <1>1, <1>2, <2>1 DEF Behind, SvcTypeOK
    <3>1. CASE k = loop.i
      BY <3>0, <3>1, Zenon DEF s
    <3>2. CASE k \in 1..(loop.i - 1)
      <4>1. started[registry[k]] \/ registry[k] \in failed \/ Running(registry[k])
        BY <1>1, <3>2, Zenon DEF Behind
      <4> QED
        BY <3>0, <4>1, Zenon
    <3> QED
      BY <1>2, <3>1, <3>2
  <2> QED
    BY <2>2, <2>3, Zenon
<1> QED
  BY <1>3, <1>4, Zenon

LEMMA SvcStep == SvcInv /\ [ServicesNext]_serviceVars => SvcInv'
<1> SUFFICES ASSUME SvcInv, [ServicesNext]_serviceVars
             PROVE  SvcInv'
  BY Zenon
<1>1. ASSUME NEW s \in Services, io_service_start(s)
      PROVE  SvcInv'
  <2>1. CallInit(s) /\ UNCHANGED <<loop, registry, started, failed>>
    BY <1>1, Zenon DEF io_service_start, CallInit
  <2>2. /\ SvcTypeOK' /\ OneOfAName' /\ Counted'
        /\ \A t : Running(t) \/ t = s => Running(t)'
    BY <2>1, CallKeeps, Zenon DEF SvcInv, SvcTypeOK
  <2> QED
    BY <2>1, <2>2, Zenon DEF SvcInv, Behind
<1>2. CASE io_service_start_all
  <2>1. /\ UNCHANGED <<registry, registered, started, calls, up>> /\ failed' = {}
        /\ loop' = [op |-> "start_all", i |-> 1, n |-> Len(registry)]
    BY <1>2, Zenon DEF io_service_start_all
  <2>2. Len(registry) \in Nat
    BY DEF SvcInv, SvcTypeOK
  <2> QED
    BY <2>1, <2>2 DEF SvcInv, SvcTypeOK, OneOfAName, Counted, Behind, InRegistry
<1>3. CASE io_service_start_all_return
  <2>1. UNCHANGED <<registry, registered, started, calls, up, failed>> /\ loop' = Idle
    BY <1>3, Zenon DEF io_service_start_all_return
  <2> QED
    BY <2>1, Zenon DEF SvcInv, SvcTypeOK, OneOfAName, Counted, Behind, InRegistry, Idle
<1>4. CASE io_service_stop_all
  <2>1. /\ UNCHANGED <<registry, registered, calls, loop, failed>>
        /\ calls = <<>> /\ loop = Idle
        /\ started' = [s \in Services |-> started[s] /\ s \notin StopFrom]
        /\ up' = [s \in Services |-> IF started[s] /\ s \in StopFrom THEN up[s] - 1 ELSE up[s]]
    BY <1>4, Zenon DEF io_service_stop_all, InCallback
  <2>2. SvcTypeOK' /\ OneOfAName' /\ Behind'
    BY <2>1 DEF SvcInv, SvcTypeOK, OneOfAName, Behind, Idle
  <2>3. Len(calls') = 0 /\ \A t : InRegistry(t)' <=> InRegistry(t)
    BY <2>1, Zenon DEF InRegistry
  <2>4. \A s \in Services : started'[s] => started[s]
    BY <2>1, Zenon
  <2>5. \A s \in Services : up'[s] = (IF started'[s] THEN 1 ELSE 0)
    <3> SUFFICES ASSUME NEW s \in Services
                 PROVE  up'[s] = (IF started'[s] THEN 1 ELSE 0)
      BY Zenon
    <3>1. up[s] = (IF started[s] THEN 1 ELSE 0)
      BY Zenon DEF SvcInv, Counted
    <3>2. CASE started[s] /\ s \in StopFrom
      <4>1. ~started'[s]
        BY <2>1, <3>2, Zenon
      <4>2. up'[s] = up[s] - 1 /\ up[s] = 1
        BY <2>1, <3>1, <3>2, Zenon
      <4> QED
        BY <4>1, <4>2
    <3>3. CASE ~(started[s] /\ s \in StopFrom)
      <4>1. up'[s] = up[s] /\ (started'[s] <=> started[s])
        BY <2>1, <3>3, Zenon
      <4> QED
        BY <3>1, <4>1, Zenon
    <3> QED
      BY <3>2, <3>3, Zenon
  <2> QED
    BY <2>2, <2>3, <2>4, <2>5 DEF SvcInv, Counted
<1>5. CASE UNCHANGED serviceVars
  BY <1>5 DEF serviceVars, SvcInv, SvcTypeOK, OneOfAName, Counted, Behind, InRegistry, Running
<1> QED
  BY <1>1, <1>2, <1>3, <1>4, <1>5, RegisterKeeps, UnregisterKeeps, StopKeeps, ReturnKeeps,
     LoopKeeps, Zenon DEF ServicesNext

\* When start_all returns every registered service runs or has failed, and when
\* stop_all returns none runs (io_service.c), however init callbacks nest.
THEOREM LoopsComplete == ServicesSpec => AllComplete
<1>1. SvcInv /\ io_service_start_all_return =>
        \A k \in DOMAIN registry : started[registry[k]] \/ registry[k] \in failed
  <2> SUFFICES ASSUME SvcInv, io_service_start_all_return, NEW k \in 1..Len(registry)
               PROVE  started[registry[k]] \/ registry[k] \in failed
    BY DEF SvcInv, SvcTypeOK
  <2>1. loop.op = "start_all" /\ calls = <<>> /\ loop.i > Len(registry)
    BY Zenon DEF io_service_start_all_return, InCallback, LoopEnd
  <2>2. ~Running(registry[k])
    BY <2>1 DEF Running
  <2>3. k \in 1..(loop.i - 1)
    BY <2>1 DEF SvcInv, SvcTypeOK
  <2> QED
    BY <2>1, <2>2, <2>3, Zenon DEF SvcInv, Behind
<1>2. SvcInv /\ io_service_stop_all => \A s \in Services : up'[s] = 0
  <2> SUFFICES ASSUME SvcInv, io_service_stop_all, NEW s \in Services
               PROVE  up'[s] = 0
    BY Zenon
  <2>1. up'[s] = (IF started[s] /\ s \in StopFrom THEN up[s] - 1 ELSE up[s])
    BY Zenon DEF io_service_stop_all
  <2>2. up[s] = (IF started[s] THEN 1 ELSE 0) /\ (started[s] => InRegistry(s))
    BY Zenon DEF SvcInv, Counted
  <2>3. InRegistry(s) => s \in StopFrom
    BY Positions, Zenon DEF StopFrom, SvcInv
  <2> QED
    BY <2>1, <2>2, <2>3
<1> QED
  BY <1>1, <1>2, SvcInitInv, SvcStep, PTL DEF ServicesSpec, AllComplete

-----------------------------------------------------------------------------
(* The keyboard ring, KbdRing                                              *)

\* The index after a slot is a slot.
LEMMA SuccIsSlot == \A e \in Slots : Succ(e) \in Slots
  BY KbdAssumption DEF Slots, Succ

\* The initial ring is empty and the thread is at the test.
LEMMA InitHolds == KeysInit => KeysTypeOK /\ ReadStable
  BY KbdAssumption DEF KeysInit, KeysTypeOK, ReadStable, Slots

\* Every step of the handlers and of the thread keeps the types.
LEMMA TypeStep == KeysTypeOK /\ [KeysNext]_keyVars => KeysTypeOK'
  <1> SUFFICES ASSUME KeysTypeOK, [KeysNext]_keyVars PROVE KeysTypeOK'
    BY Zenon
  <1> USE SuccIsSlot, KbdAssumption DEF KeysTypeOK
  <1>1. CASE kbd_push_irq
    BY <1>1 DEF kbd_push_irq, Wake
  <1>2. CASE pit_tick
    BY <1>2, Zenon DEF pit_tick, Wake, ring
  <1>3. CASE kbd_push_next
    BY <1>3 DEF kbd_push_next, ring
  <1>4. CASE atkbd_getchar_test
    BY <1>4, Zenon DEF atkbd_getchar_test, ring
  <1>5. CASE atkbd_pollchar_hlt
    BY <1>5, Zenon DEF atkbd_pollchar_hlt, ring
  <1>6. CASE atkbd_getchar_read
    BY <1>6, Zenon DEF atkbd_getchar_read, ring
  <1>7. CASE atkbd_getchar_advance
    <2>1. delivered' \in Seq(Nat)
      BY <1>7 DEF atkbd_getchar_advance
    <2> QED
      BY <1>7, <2>1, Zenon DEF atkbd_getchar_advance
  <1>8. CASE kbd_push_full
    BY <1>8, Zenon DEF kbd_push_full, ring
  <1>9. CASE kbd_push_store
    BY <1>9, Zenon DEF kbd_push_store
  <1>10. CASE kbd_push_publish
    BY <1>10, Zenon DEF kbd_push_publish
  <1>11. CASE UNCHANGED keyVars
    BY <1>11, Zenon DEF keyVars, ring
  <1> QED
    BY <1>1, <1>2, <1>3, <1>4, <1>5, <1>6, <1>7, <1>8, <1>9, <1>10, <1>11, Zenon
       DEF KeysNext, Main

\* No step disturbs the slot the thread is reading.
LEMMA StableStep == KeysTypeOK /\ ReadStable /\ [KeysNext]_keyVars => ReadStable'
  <1> SUFFICES ASSUME KeysTypeOK, ReadStable, [KeysNext]_keyVars PROVE ReadStable'
    BY Zenon
  <1> USE DEF ReadStable
  <1>1. CASE kbd_push_irq
    <2>1. CASE Succ(g_kbd_head) # g_kbd_tail
      <3>1. g_kbd_head' # g_kbd_tail'
        BY <1>1, <2>1, Zenon DEF kbd_push_irq
      <3>2. ASSUME g_kbd_head # g_kbd_tail PROVE g_kbd_buf'[g_kbd_tail] = g_kbd_buf[g_kbd_tail]
        BY <1>1, <2>1, <3>2, Zenon DEF kbd_push_irq, KeysTypeOK
      <3> QED
        BY <1>1, <3>1, <3>2, Zenon DEF kbd_push_irq, Wake
    <2>2. CASE Succ(g_kbd_head) = g_kbd_tail
      BY <1>1, <2>2, Zenon DEF kbd_push_irq, Wake
    <2> QED
      BY <2>1, <2>2, Zenon
  <1>2. CASE pit_tick
    BY <1>2, Zenon DEF pit_tick, Wake
  <1>3. CASE kbd_push_next
    BY <1>3, Zenon DEF kbd_push_next
  <1>4. CASE atkbd_getchar_test
    BY <1>4, Zenon DEF atkbd_getchar_test, ring
  <1>5. CASE atkbd_pollchar_hlt
    BY <1>5, Zenon DEF atkbd_pollchar_hlt
  <1>6. CASE atkbd_getchar_read
    BY <1>6, Zenon DEF atkbd_getchar_read, ring
  <1>7. CASE atkbd_getchar_advance
    BY <1>7, Zenon DEF atkbd_getchar_advance
  <1>8. CASE kbd_push_full
    BY <1>8, Zenon DEF kbd_push_full
  <1>9. CASE kbd_push_store
    BY <1>9, Zenon DEF kbd_push_store
  <1>10. CASE kbd_push_publish
    BY <1>10, Zenon DEF kbd_push_publish
  <1>11. CASE UNCHANGED keyVars
    BY <1>11, Zenon DEF keyVars, ring
  <1> QED
    BY <1>1, <1>2, <1>3, <1>4, <1>5, <1>6, <1>7, <1>8, <1>9, <1>10, <1>11, Zenon
       DEF KeysNext, Main

\* atkbd_getchar always returns the character that was in the slot it
\* releases, whatever is pushed while it runs.
THEOREM SlotReadIsStable == KeysSpec => [](KeysTypeOK /\ ReadStable)
  <1>1. KeysTypeOK /\ ReadStable /\ [KeysNext]_keyVars => (KeysTypeOK /\ ReadStable)'
    BY TypeStep, StableStep, Zenon
  <1> QED
    BY InitHolds, <1>1, PTL DEF KeysSpec
-----------------------------------------------------------------------------
\* The thread does not poll, and is not in kbd_push.
NotPushing == ~MainPolls /\ pc \notin {"full", "store", "publish"}

\* If the thread does not poll it never enters kbd_push.
LEMMA NotPushingStep == NotPushing /\ [KeysNext]_keyVars => NotPushing'
  BY Zenon DEF NotPushing, KeysNext, Main, keyVars, Wake, kbd_push_irq, pit_tick, kbd_push_next,
         atkbd_getchar_test, atkbd_pollchar_hlt, atkbd_getchar_read, atkbd_getchar_advance,
         kbd_push_full, kbd_push_store, kbd_push_publish

\* The ring's contents as the lemmas on rings write them.
LEMMA ContentsIs ==
  /\ Contents = Queue(KBD_BUF_SIZE, g_kbd_buf, g_kbd_head, g_kbd_tail)
  /\ Contents' = Queue(KBD_BUF_SIZE, g_kbd_buf', g_kbd_head', g_kbd_tail')
  BY Zenon DEF Contents, Waiting, Queue, Used, SlotAt

\* A push from an interrupt handler is a Put.
LEMMA PushIsPut == KeysTypeOK /\ kbd_push_irq => Fifo!Put
  <1> SUFFICES ASSUME KeysTypeOK, kbd_push_irq PROVE Fifo!Put
    BY Zenon
  <1> DEFINE n == KBD_BUF_SIZE
  <1>1. IsRing(n, g_kbd_head, g_kbd_tail) /\ ValuesIn(n, g_kbd_buf, Nat)
    BY KbdAssumption DEF KeysTypeOK, Slots, IsRing, ValuesIn
  <1>t. typed' \in Nat
    BY DEF KeysTypeOK, kbd_push_irq
  <1>2. Succ(g_kbd_head) = Step(n, g_kbd_head)
    BY Zenon DEF Succ, Step
  <1>3. Len(Contents) = Used(n, g_kbd_head, g_kbd_tail)
    BY <1>1, QueueIs, ContentsIs, Zenon
  <1>4. Step(n, g_kbd_head) # g_kbd_tail <=> Len(Contents) < n - 1
    <2>1. Step(n, g_kbd_head) # g_kbd_tail <=> Used(n, g_kbd_head, g_kbd_tail) < n - 1
      BY <1>1, HeadUp, Zenon
    <2> QED
      BY <1>3, <2>1, Zenon
  <1>5. CASE Step(n, g_kbd_head) # g_kbd_tail
    <2>0. /\ ValuesIn(n, g_kbd_buf', Nat)
          /\ Stores(n, g_kbd_buf, g_kbd_buf', g_kbd_head) /\ g_kbd_buf'[g_kbd_head] = typed'
      BY <1>1, <1>2, <1>5, <1>t, Zenon DEF kbd_push_irq, Stores, ValuesIn, IsRing
    <2>1.  g_kbd_head' = Step(n, g_kbd_head) /\ g_kbd_tail' = g_kbd_tail
      BY <1>2, <1>5, Zenon DEF kbd_push_irq
    <2>2. Queue(n, g_kbd_buf', Step(n, g_kbd_head), g_kbd_tail)
            = Append(Queue(n, g_kbd_buf, g_kbd_head, g_kbd_tail), g_kbd_buf'[g_kbd_head])
      BY <1>1, <1>5, <2>0, RingPushed
    <2>3. Contents' = Append(Contents, typed')
      BY <1>5, <2>0, <2>1, <2>2, ContentsIs, Zenon
    <2> QED
      BY <1>4, <1>5, <2>3, Zenon DEF Fifo!Put, kbd_push_irq
  <1>6. CASE Step(n, g_kbd_head) = g_kbd_tail
    <2>1. UNCHANGED ring
      BY <1>2, <1>6, Zenon DEF kbd_push_irq, ring
    <2>2. Contents' = Contents
      BY <2>1, ContentsIs, Zenon DEF ring
    <2> QED
      BY <1>4, <1>6, <2>2, Zenon DEF Fifo!Put, kbd_push_irq
  <1> QED
    BY <1>5, <1>6, Zenon

\* Releasing the slot that was read is a Get.
LEMMA AdvanceIsGet == KeysTypeOK /\ ReadStable /\ atkbd_getchar_advance => Fifo!Get
  <1> SUFFICES ASSUME KeysTypeOK, ReadStable, atkbd_getchar_advance PROVE Fifo!Get
    BY Zenon
  <1> DEFINE n == KBD_BUF_SIZE
  <1>1. IsRing(n, g_kbd_head, g_kbd_tail) /\ ValuesIn(n, g_kbd_buf, Nat)
    BY KbdAssumption DEF KeysTypeOK, Slots, IsRing, ValuesIn
  <1>2. g_kbd_head # g_kbd_tail /\ c = g_kbd_buf[g_kbd_tail]
    BY Zenon DEF ReadStable, atkbd_getchar_advance
  <1>3. /\ g_kbd_buf' = g_kbd_buf /\ g_kbd_head' = g_kbd_head
        /\ g_kbd_tail' = Step(n, g_kbd_tail)
    BY Zenon DEF atkbd_getchar_advance, Succ, Step
  <1>4. /\ Queue(n, g_kbd_buf, g_kbd_head, g_kbd_tail) # <<>>
        /\ Head(Queue(n, g_kbd_buf, g_kbd_head, g_kbd_tail)) = g_kbd_buf[g_kbd_tail]
        /\ Tail(Queue(n, g_kbd_buf, g_kbd_head, g_kbd_tail))
             = Queue(n, g_kbd_buf, g_kbd_head, Step(n, g_kbd_tail))
    BY <1>1, <1>2, TakenOut
  <1>5. Contents # <<>> /\ Head(Contents) = c /\ Contents' = Tail(Contents)
    BY <1>2, <1>3, <1>4, ContentsIs, Zenon
  <1> QED
    BY <1>5, Zenon DEF Fifo!Get, atkbd_getchar_advance

\* The other steps of the thread are not visible in the queue.
LEMMA OthersStutter ==
  ASSUME NotPushing, [KeysNext]_keyVars, ~kbd_push_irq, ~atkbd_getchar_advance
  PROVE  UNCHANGED <<typed, Contents, delivered>>
  <1>1. UNCHANGED <<ring, typed, delivered>>
    BY Zenon DEF NotPushing, KeysNext, Main, keyVars, pit_tick, kbd_push_next, atkbd_getchar_test,
           atkbd_pollchar_hlt, atkbd_getchar_read, kbd_push_full, kbd_push_store,
           kbd_push_publish
  <1> QED
    BY <1>1, ContentsIs, Zenon DEF ring

\* For every ring size: keys are delivered in the order of the interrupts that
\* brought them, and one is dropped only when KBD_BUF_SIZE - 1 are waiting.
THEOREM RingIsFifo == ~MainPolls /\ KeysSpec => ImplementsFifo
  <1>1. ~MainPolls /\ KeysInit => NotPushing /\ Fifo!Init
    <2> SUFFICES ASSUME ~MainPolls, KeysInit PROVE NotPushing /\ Fifo!Init
      BY Zenon
    <2>1. Waiting = 0
      BY KbdAssumption DEF KeysInit, Waiting
    <2>2. Contents = <<>>
      BY <2>1 DEF Contents
    <2> QED
      BY <2>2, Zenon DEF KeysInit, NotPushing, Fifo!Init
  <1>2. KeysTypeOK /\ ReadStable /\ NotPushing /\ [KeysNext]_keyVars
          => [Fifo!Next]_<<typed, Contents, delivered>>
    BY PushIsPut, AdvanceIsGet, OthersStutter, Zenon DEF Fifo!Next
  <1> QED
    BY <1>1, <1>2, NotPushingStep, SlotReadIsStable, PTL DEF KeysSpec, ImplementsFifo, Fifo!Spec

-----------------------------------------------------------------------------
(* The order of the keys, with a thread that pushes too                    *)

\* The slots from the tail on, once round the ring, and how many of them lie
\* before a place.
View(g, tail) == [k \in 1..KBD_BUF_SIZE |-> g[SlotAt(KBD_BUF_SIZE, tail, k)]]
UpTo(e) == Used(KBD_BUF_SIZE, e, g_kbd_tail)
Seen == View(g_kbd_buf, g_kbd_tail)

\* The keys d, and then the first u of h, are in the order they were typed in.
Sorted(h, u, d, n) ==
    /\ \A e, j \in 1..Len(d) : e < j => d[e] < d[j]
    /\ \A e \in 1..Len(d) : d[e] <= n
    /\ \A k \in 1..u : h[k] <= n
    /\ \A j, k \in 1..u : j < k => h[j] < h[k]
    /\ \A e \in 1..Len(d) : \A k \in 1..u : d[e] < h[k]

KeysSorted == Sorted(Seen, UpTo(g_kbd_head), delivered, typed)

\* The thread is about to publish the ring up to next: the keys before are
\* older than its own, and the last slot has its own, unless an interrupt has
\* published that slot since.
Unpublished ==
    pc \in {"full", "store", "publish"} =>
        /\ key <= typed
        /\ \A e \in 1..Len(delivered) : delivered[e] < key
        /\ next # g_kbd_tail =>
             /\ UpTo(next) - 1 <= UpTo(g_kbd_head)
             /\ \A k \in 1..(UpTo(next) - 1) : Seen[k] < key
             /\ pc = "publish" /\ UpTo(next) - 1 = UpTo(g_kbd_head) => Seen[UpTo(next)] = key
        /\ pc # "full" => next # g_kbd_tail

OrderInv == KeysTypeOK /\ ReadStable /\ KeysSorted /\ Unpublished

\* A newer key may follow the others.
LEMMA SortedMore ==
    ASSUME NEW h, NEW u \in Nat, NEW d \in Seq(Nat), NEW n \in Nat, Sorted(h, u, d, n),
           NEW hh, \A k \in 1..u : hh[k] = h[k], NEW m \in Nat, n <= m,
           \A k \in 1..u : h[k] \in Nat, hh[u + 1] \in Nat, hh[u + 1] <= m,
           \A k \in 1..u : h[k] < hh[u + 1], \A e \in 1..Len(d) : d[e] < hh[u + 1]
    PROVE  Sorted(hh, u + 1, d, m)
<1>1. \A k \in 1..(u + 1) : k \in 1..u \/ k = u + 1
  OBVIOUS
<1>2. \A e \in 1..Len(d) : d[e] \in Nat
  OBVIOUS
<1>3. \A e \in 1..Len(d) : d[e] <= m
  BY <1>2 DEF Sorted
<1>4. \A k \in 1..(u + 1) : hh[k] <= m
  BY <1>1 DEF Sorted
<1>5. ASSUME NEW j \in 1..(u + 1), NEW k \in 1..(u + 1), j < k PROVE hh[j] < hh[k]
  <2>1. j \in 1..u
    BY <1>5
  <2>2. CASE k \in 1..u
    BY <1>5, <2>1, <2>2, Zenon DEF Sorted
  <2>3. CASE k = u + 1
    BY <2>1, <2>3, Zenon
  <2> QED
    BY <1>1, <2>2, <2>3, Zenon
<1>6. \A e \in 1..Len(d) : \A k \in 1..(u + 1) : d[e] < hh[k]
  BY <1>1, Zenon DEF Sorted
<1> QED
  BY <1>3, <1>4, <1>5, <1>6, Zenon DEF Sorted

\* Keys may be dropped at the end.
LEMMA SortedLess ==
    ASSUME NEW h, NEW u \in Nat, NEW d, NEW n, Sorted(h, u, d, n), NEW v \in Nat, v <= u,
           NEW hh, \A k \in 1..v : hh[k] = h[k]
    PROVE  Sorted(hh, v, d, n)
<1>1. \A k \in 1..v : k \in 1..u
  OBVIOUS
<1> QED
  BY <1>1, Zenon DEF Sorted

\* The oldest key may be delivered.
LEMMA SortedShift ==
    ASSUME NEW h, NEW u \in Nat \ {0}, NEW d \in Seq(Nat), NEW n \in Nat, Sorted(h, u, d, n),
           NEW hh, \A k \in 1..(u - 1) : hh[k] = h[k + 1], \A k \in 1..u : h[k] \in Nat
    PROVE  Sorted(hh, u - 1, Append(d, h[1]), n)
<1> DEFINE a == Append(d, h[1])
<1>1. 1 \in 1..u /\ \A k \in 1..(u - 1) : k + 1 \in 1..u /\ 1 < k + 1
  OBVIOUS
<1>2. Len(a) = Len(d) + 1 /\ Len(d) \in Nat /\ a[Len(d) + 1] = h[1]
      /\ \A e \in 1..Len(d) : a[e] = d[e]
  BY <1>1
<1> HIDE DEF a
<1>3. \A e \in 1..Len(a) : e \in 1..Len(d) \/ e = Len(d) + 1
  BY <1>2
<1>4. ASSUME NEW e \in 1..Len(a), NEW j \in 1..Len(a), e < j PROVE a[e] < a[j]
  <2>1. e \in 1..Len(d)
    BY <1>2, <1>4
  <2>2. CASE j \in 1..Len(d)
    BY <1>2, <1>4, <2>1, <2>2, Zenon DEF Sorted
  <2>3. CASE j = Len(d) + 1
    BY <1>1, <1>2, <2>1, <2>3, Zenon DEF Sorted
  <2> QED
    BY <1>3, <2>2, <2>3, Zenon
<1>5. \A e \in 1..Len(a) : a[e] <= n
  BY <1>1, <1>2, <1>3, Zenon DEF Sorted
<1>6. \A k \in 1..(u - 1) : hh[k] <= n
  BY <1>1, Zenon DEF Sorted
<1>7. ASSUME NEW j \in 1..(u - 1), NEW k \in 1..(u - 1), j < k PROVE hh[j] < hh[k]
  <2>1. j + 1 < k + 1
    BY <1>7
  <2> QED
    BY <1>1, <2>1, Zenon DEF Sorted
<1>8. ASSUME NEW e \in 1..Len(a), NEW k \in 1..(u - 1) PROVE a[e] < hh[k]
  <2>1. h[1] < h[k + 1] /\ \A x \in 1..Len(d) : d[x] < h[k + 1]
    BY <1>1, Zenon DEF Sorted
  <2> QED
    BY <1>2, <1>3, <2>1, Zenon
<1> QED
  BY <1>4, <1>5, <1>6, <1>7, <1>8, Zenon DEF Sorted, a

\* What HeadUp and UsedIs say of this ring, and of a key stored at the head.
LEMMA AtHead ==
    ASSUME KeysTypeOK
    PROVE  /\ \A e \in Slots : UpTo(e) \in 0..(KBD_BUF_SIZE - 1)
           /\ Seen \in [1..KBD_BUF_SIZE -> Nat]
           /\ Succ(g_kbd_head) # g_kbd_tail =>
                UpTo(Succ(g_kbd_head)) = UpTo(g_kbd_head) + 1
           /\ \A e \in Slots : e # g_kbd_tail => UpTo(e) # 0
           /\ \A x \in Nat :
                /\ View([g_kbd_buf EXCEPT ![g_kbd_head] = x], g_kbd_tail)[UpTo(g_kbd_head) + 1] = x
                /\ \A k \in 1..UpTo(g_kbd_head) :
                     View([g_kbd_buf EXCEPT ![g_kbd_head] = x], g_kbd_tail)[k] = Seen[k]
<1> DEFINE n == KBD_BUF_SIZE
           u == UpTo(g_kbd_head)
<1>1. n \in Nat \ {0} /\ Slots = 0..(n - 1) /\ g_kbd_head \in Slots /\ g_kbd_tail \in Slots
      /\ g_kbd_buf \in [Slots -> Nat]
  BY KbdAssumption DEF KeysTypeOK, Slots
<1>2. ASSUME NEW e \in Slots
      PROVE  UpTo(e) \in 0..(n - 1) /\ (e # g_kbd_tail => UpTo(e) # 0)
  <2>1. /\ UpTo(e) = IF e >= g_kbd_tail THEN e - g_kbd_tail ELSE e + n - g_kbd_tail
        /\ UpTo(e) \in 0..(n - 1)
    BY <1>1, UsedIs, Zenon DEF UpTo
  <2> QED
    BY <1>1, <2>1
<1>3. \A k \in 1..n : SlotAt(n, g_kbd_tail, k) \in Slots
  BY <1>1, AtIs, Zenon
<1>4. Seen \in [1..n -> Nat]
  BY <1>1, <1>3, Zenon DEF Seen, View
<1>5. /\ Step(n, g_kbd_head) # g_kbd_tail => UpTo(Step(n, g_kbd_head)) = u + 1
      /\ SlotAt(n, g_kbd_tail, u + 1) = g_kbd_head
      /\ \A k \in 1..u : SlotAt(n, g_kbd_tail, k) # g_kbd_head
  <2>1. IsRing(n, g_kbd_head, g_kbd_tail)
    BY <1>1, Zenon DEF IsRing
  <2> QED
    BY <2>1, HeadUp DEF UpTo
<1>6. Succ(g_kbd_head) = Step(n, g_kbd_head)
  BY Zenon DEF Succ, Step
<1>7. u + 1 \in 1..n /\ \A k \in 1..u : k \in 1..n
  <2>1. u \in 0..(n - 1)
    BY <1>1, <1>2, Zenon
  <2> HIDE DEF u, n
  <2> QED
    BY <1>1, <2>1
<1>8. ASSUME NEW x \in Nat
      PROVE  /\ View([g_kbd_buf EXCEPT ![g_kbd_head] = x], g_kbd_tail)[u + 1] = x
             /\ \A k \in 1..u : View([g_kbd_buf EXCEPT ![g_kbd_head] = x], g_kbd_tail)[k] = Seen[k]
  <2> DEFINE g == [g_kbd_buf EXCEPT ![g_kbd_head] = x]
  <2>1. g[g_kbd_head] = x /\ \A e \in Slots : e # g_kbd_head => g[e] = g_kbd_buf[e]
    BY <1>1, Zenon
  <2> HIDE DEF g, u
  <2>2. View(g, g_kbd_tail)[u + 1] = x
    BY <1>5, <1>7, <2>1, Zenon DEF View
  <2>3. \A k \in 1..u : View(g, g_kbd_tail)[k] = Seen[k]
    BY <1>3, <1>5, <1>7, <2>1, Zenon DEF View, Seen
  <2> QED
    BY <2>2, <2>3, Zenon DEF g
<1> QED
  BY <1>2, <1>4, <1>5, <1>6, <1>8, Zenon

LEMMA OrderInit == KeysInit => OrderInv
<1> SUFFICES ASSUME KeysInit PROVE OrderInv
  BY Zenon
<1>1. KeysTypeOK /\ ReadStable
  BY InitHolds, Zenon
<1>2. UpTo(g_kbd_head) = 0
  <2>1. KBD_BUF_SIZE \in Nat \ {0} /\ 0 \in 0..(KBD_BUF_SIZE - 1)
    BY KbdAssumption
  <2>2. Used(KBD_BUF_SIZE, 0, 0) = 0
    BY <2>1, UsedIs
  <2> QED
    BY <2>2, Zenon DEF KeysInit, UpTo
<1>3. Len(delivered) = 0
  BY Zenon DEF KeysInit
<1>4. KeysSorted
  BY <1>2, <1>3 DEF KeysSorted, Sorted
<1>5. Unpublished
  BY Zenon DEF KeysInit, Unpublished
<1> QED
  BY <1>1, <1>4, <1>5, Zenon DEF OrderInv

LEMMA IrqKeepsOrder ==
    ASSUME OrderInv, kbd_push_irq
    PROVE  KeysSorted' /\ Unpublished'
<1> DEFINE u == UpTo(g_kbd_head)
<1>1. /\ KeysTypeOK /\ KeysSorted /\ Unpublished
      /\ typed \in Nat /\ typed' = typed + 1 /\ delivered \in Seq(Nat) /\ key \in Nat
      /\ g_kbd_head \in Slots /\ next \in Slots
      /\ UNCHANGED <<g_kbd_tail, next, key, delivered>>
      /\ pc' \in {"full", "store", "publish"} => pc' = pc
  BY Zenon DEF OrderInv, KeysTypeOK, kbd_push_irq, Wake
<1>2. u \in 0..(KBD_BUF_SIZE - 1) /\ Seen \in [1..KBD_BUF_SIZE -> Nat] /\ UpTo(next) \in Nat
      /\ KBD_BUF_SIZE \in Nat /\ (next # g_kbd_tail => UpTo(next) # 0)
  BY <1>1, AtHead, KbdAssumption
<1>3. \A e \in 1..Len(delivered) : delivered[e] \in Nat /\ delivered[e] <= typed
  BY <1>1 DEF KeysSorted, Sorted
<1>4. \A k \in 1..u : Seen[k] \in Nat /\ Seen[k] <= typed
  BY <1>1, <1>2 DEF KeysSorted, Sorted
<1>5. UpTo(next)' = UpTo(next)
  BY <1>1, Zenon DEF UpTo
<1> HIDE DEF u
<1>6. CASE Succ(g_kbd_head) # g_kbd_tail
  <2>1. g_kbd_buf' = [g_kbd_buf EXCEPT ![g_kbd_head] = typed + 1] /\ g_kbd_head' = Succ(g_kbd_head)
    BY <1>1, <1>6, Zenon DEF kbd_push_irq
  <2>2. UpTo(g_kbd_head)' = u + 1
    BY <1>1, <1>6, <2>1, AtHead, Zenon DEF UpTo, u
  <2>3. Seen'[u + 1] = typed + 1 /\ \A k \in 1..u : Seen'[k] = Seen[k]
    <3>1. Seen' = View([g_kbd_buf EXCEPT ![g_kbd_head] = typed + 1], g_kbd_tail)
      BY <1>1, <2>1 DEF Seen, View
    <3>2. typed + 1 \in Nat
      BY <1>1
    <3> QED
      BY <1>1, <3>1, <3>2, AtHead, Zenon DEF u
  <2>4. KeysSorted'
    <3>1. Sorted(Seen, u, delivered, typed)
      BY <1>1, Zenon DEF KeysSorted, u
    <3>2. \A k \in 1..u : Seen[k] < typed + 1
      BY <1>1, <1>4
    <3>3. \A e \in 1..Len(delivered) : delivered[e] < typed + 1
      BY <1>1, <1>3
    <3>4. u \in Nat /\ typed + 1 \in Nat /\ typed <= typed + 1 /\ typed + 1 <= typed + 1
      BY <1>1, <1>2
    <3>5. Sorted(Seen', u + 1, delivered, typed + 1)
      BY <1>1, <1>4, <2>3, <3>1, <3>2, <3>3, <3>4, SortedMore, Zenon
    <3> QED
      BY <1>1, <2>2, <3>5, Zenon DEF KeysSorted
  <2>5. Unpublished'
    <3> SUFFICES ASSUME pc' \in {"full", "store", "publish"}
                 PROVE  /\ key <= typed + 1
                        /\ \A e \in 1..Len(delivered) : delivered[e] < key
                        /\ next # g_kbd_tail =>
                             /\ UpTo(next) - 1 <= u + 1
                             /\ \A k \in 1..(UpTo(next) - 1) : Seen'[k] < key
                             /\ UpTo(next) - 1 # u + 1
                        /\ pc' # "full" => next # g_kbd_tail
      BY <1>1, <1>5, <2>2, Zenon DEF Unpublished
    <3>1. /\ key <= typed /\ \A e \in 1..Len(delivered) : delivered[e] < key
          /\ next # g_kbd_tail =>
               UpTo(next) - 1 <= u /\ \A k \in 1..(UpTo(next) - 1) : Seen[k] < key
          /\ pc' # "full" => next # g_kbd_tail
      BY <1>1, Zenon DEF Unpublished, u
    <3>2. key <= typed + 1
      BY <1>1, <3>1
    <3>3. next # g_kbd_tail => UpTo(next) - 1 <= u + 1 /\ UpTo(next) - 1 # u + 1
      BY <1>2, <3>1
    <3>4. next # g_kbd_tail => \A k \in 1..(UpTo(next) - 1) : k \in 1..u
      BY <1>2, <3>1
    <3> QED
      BY <2>3, <3>1, <3>2, <3>3, <3>4, Zenon
  <2> QED
    BY <2>4, <2>5, Zenon
<1>7. CASE Succ(g_kbd_head) = g_kbd_tail
  <2>1. UNCHANGED <<g_kbd_buf, g_kbd_head>>
    BY <1>7, Zenon DEF kbd_push_irq
  <2>2. Seen' = Seen /\ UpTo(g_kbd_head)' = u
    BY <1>1, <2>1, Zenon DEF Seen, View, UpTo, u
  <2>3. \A k \in 1..u : Seen[k] <= typed + 1
    BY <1>1, <1>4
  <2>4. \A e \in 1..Len(delivered) : delivered[e] <= typed + 1
    BY <1>1, <1>3
  <2>5. KeysSorted'
    BY <1>1, <2>2, <2>3, <2>4, Zenon DEF KeysSorted, Sorted, u
  <2>6. key <= typed => key <= typed + 1
    BY <1>1
  <2>7. Unpublished'
    BY <1>1, <1>5, <2>2, <2>6, Zenon DEF Unpublished, u
  <2> QED
    BY <2>5, <2>7, Zenon
<1> QED
  BY <1>6, <1>7, Zenon

LEMMA AdvanceKeepsOrder ==
    ASSUME OrderInv, atkbd_getchar_advance
    PROVE  KeysSorted' /\ Unpublished'
<1> DEFINE u == UpTo(g_kbd_head)
           n == KBD_BUF_SIZE
<1>1. /\ KeysTypeOK /\ KeysSorted /\ g_kbd_head # g_kbd_tail /\ c = g_kbd_buf[g_kbd_tail]
      /\ typed \in Nat /\ delivered \in Seq(Nat)
      /\ n \in Nat \ {0} /\ Slots = 0..(n - 1) /\ g_kbd_head \in Slots /\ g_kbd_tail \in Slots
  BY KbdAssumption DEF OrderInv, KeysTypeOK, ReadStable, atkbd_getchar_advance, Slots
<1>2. /\ g_kbd_tail' = Step(n, g_kbd_tail) /\ delivered' = Append(delivered, c) /\ pc' = "test"
      /\ UNCHANGED <<g_kbd_buf, g_kbd_head, typed>>
  BY Zenon DEF atkbd_getchar_advance, Succ, Step
<1>3. u \in 0..(n - 1) /\ Seen \in [1..n -> Nat]
  BY <1>1, AtHead, Zenon
<1>4. /\ u >= 1 /\ Used(n, g_kbd_head, Step(n, g_kbd_tail)) = u - 1
      /\ SlotAt(n, g_kbd_tail, 1) = g_kbd_tail
      /\ \A k \in 1..(u - 1) : SlotAt(n, Step(n, g_kbd_tail), k) = SlotAt(n, g_kbd_tail, k + 1)
  <2>1. IsRing(n, g_kbd_head, g_kbd_tail)
    BY <1>1, Zenon DEF IsRing
  <2> QED
    BY <1>1, <2>1, TailUp DEF UpTo
<1>5. UpTo(g_kbd_head)' = u - 1
  BY <1>2, <1>4, Zenon DEF UpTo
<1> HIDE DEF u
<1>6. u \in Nat \ {0} /\ 1 \in 1..n /\ \A k \in 1..(u - 1) : k \in 1..n /\ k + 1 \in 1..n
  BY <1>1, <1>3, <1>4
<1>7. Seen[1] = c
  BY <1>1, <1>4, <1>6, Zenon DEF Seen, View
<1>8. \A k \in 1..(u - 1) : Seen'[k] = Seen[k + 1]
  BY <1>2, <1>4, <1>6, Zenon DEF Seen, View
<1>9. \A k \in 1..u : Seen[k] \in Nat
  BY <1>1, <1>3
<1>10. Sorted(Seen, u, delivered, typed)
  BY <1>1, Zenon DEF KeysSorted, u
<1>11. Sorted(Seen', u - 1, Append(delivered, c), typed)
  BY <1>1, <1>6, <1>7, <1>8, <1>9, <1>10, SortedShift, Zenon
<1>12. KeysSorted'
  BY <1>2, <1>5, <1>11, Zenon DEF KeysSorted
<1> QED
  BY <1>2, <1>12, Zenon DEF Unpublished

LEMMA NextKeepsOrder ==
    ASSUME OrderInv, kbd_push_next
    PROVE  KeysSorted' /\ Unpublished'
<1> DEFINE u == UpTo(g_kbd_head)
<1>1. /\ KeysTypeOK /\ KeysSorted /\ typed \in Nat /\ typed' = typed + 1
      /\ delivered \in Seq(Nat) /\ key' = typed + 1 /\ next' = Succ(g_kbd_head) /\ pc' = "full"
      /\ g_kbd_head \in Slots
      /\ UNCHANGED <<g_kbd_buf, g_kbd_head, g_kbd_tail, delivered>>
  BY Zenon DEF OrderInv, KeysTypeOK, kbd_push_next, ring
<1>2. /\ u \in 0..(KBD_BUF_SIZE - 1) /\ Seen \in [1..KBD_BUF_SIZE -> Nat] /\ KBD_BUF_SIZE \in Nat
      /\ Succ(g_kbd_head) # g_kbd_tail => UpTo(Succ(g_kbd_head)) = u + 1
  BY <1>1, AtHead, KbdAssumption, Zenon
<1>3. \A e \in 1..Len(delivered) : delivered[e] \in Nat /\ delivered[e] <= typed
  BY <1>1 DEF KeysSorted, Sorted
<1>4. \A k \in 1..u : Seen[k] \in Nat /\ Seen[k] <= typed
  BY <1>1, <1>2 DEF KeysSorted, Sorted
<1>5. Seen' = Seen /\ UpTo(g_kbd_head)' = u /\ UpTo(next)' = UpTo(Succ(g_kbd_head))
  BY <1>1, Zenon DEF Seen, View, UpTo
<1> HIDE DEF u
<1>6. \A e \in 1..Len(delivered) : delivered[e] <= typed + 1 /\ delivered[e] < typed + 1
  BY <1>1, <1>3
<1>7. \A k \in 1..u : Seen[k] <= typed + 1 /\ Seen[k] < typed + 1
  BY <1>1, <1>4
<1>8. KeysSorted'
  BY <1>1, <1>5, <1>6, <1>7, Zenon DEF KeysSorted, Sorted, u
<1>9. u + 1 - 1 = u /\ u <= u /\ typed + 1 <= typed + 1
  BY <1>1, <1>2
<1>10. Unpublished'
  BY <1>1, <1>2, <1>5, <1>6, <1>7, <1>9 DEF Unpublished
<1> QED
  BY <1>8, <1>10, Zenon

LEMMA StoreKeepsOrder ==
    ASSUME OrderInv, kbd_push_store
    PROVE  KeysSorted' /\ Unpublished'
<1> DEFINE u == UpTo(g_kbd_head)
<1>1. /\ KeysTypeOK /\ KeysSorted /\ Unpublished /\ typed \in Nat /\ key \in Nat
      /\ pc = "store" /\ pc' = "publish" /\ g_kbd_head \in Slots /\ next \in Slots
      /\ g_kbd_buf' = [g_kbd_buf EXCEPT ![g_kbd_head] = key]
      /\ UNCHANGED <<g_kbd_head, g_kbd_tail, next, key, typed, delivered>>
  BY Zenon DEF OrderInv, KeysTypeOK, kbd_push_store
<1>2. /\ u \in 0..(KBD_BUF_SIZE - 1) /\ KBD_BUF_SIZE \in Nat /\ UpTo(next) \in Nat
  BY <1>1, AtHead, KbdAssumption
<1>3. Seen'[u + 1] = key /\ \A k \in 1..u : Seen'[k] = Seen[k]
  <2>1. Seen' = View([g_kbd_buf EXCEPT ![g_kbd_head] = key], g_kbd_tail)
    BY <1>1 DEF Seen, View
  <2> QED
    BY <1>1, <2>1, AtHead, Zenon
<1>4. UpTo(g_kbd_head)' = u /\ UpTo(next)' = UpTo(next)
  BY <1>1, Zenon DEF UpTo
<1> HIDE DEF u
<1>5. KeysSorted'
  <2>1. Sorted(Seen, u, delivered, typed)
    BY <1>1, Zenon DEF KeysSorted, u
  <2>2. u \in Nat /\ u <= u
    BY <1>2
  <2>3. Sorted(Seen', u, delivered, typed)
    BY <1>3, <2>1, <2>2, SortedLess, Zenon
  <2> QED
    BY <1>1, <1>4, <2>3, Zenon DEF KeysSorted
<1>6. /\ key <= typed /\ \A e \in 1..Len(delivered) : delivered[e] < key
      /\ UpTo(next) - 1 <= u /\ next # g_kbd_tail
      /\ \A k \in 1..(UpTo(next) - 1) : Seen[k] < key
  BY <1>1, Zenon DEF Unpublished, u
<1>7. (\A k \in 1..(UpTo(next) - 1) : k \in 1..u) /\ (UpTo(next) - 1 = u => UpTo(next) = u + 1)
  BY <1>2, <1>6
<1>8. Unpublished'
  BY <1>1, <1>3, <1>4, <1>6, <1>7, Zenon DEF Unpublished
<1> QED
  BY <1>5, <1>8, Zenon

LEMMA PublishKeepsOrder ==
    ASSUME OrderInv, kbd_push_publish
    PROVE  KeysSorted' /\ Unpublished'
<1> DEFINE u == UpTo(g_kbd_head)
           v == UpTo(next)
<1>1. /\ KeysTypeOK /\ KeysSorted /\ Unpublished /\ typed \in Nat /\ key \in Nat
      /\ pc = "publish" /\ pc' = "test" /\ g_kbd_head \in Slots /\ next \in Slots
      /\ g_kbd_head' = next /\ delivered \in Seq(Nat)
      /\ UNCHANGED <<g_kbd_buf, g_kbd_tail, typed, delivered>>
  BY Zenon DEF OrderInv, KeysTypeOK, kbd_push_publish
<1>2. u \in Nat /\ v \in Nat /\ Seen \in [1..KBD_BUF_SIZE -> Nat] /\ KBD_BUF_SIZE \in Nat
      /\ u <= KBD_BUF_SIZE /\ (next # g_kbd_tail => v # 0)
  BY <1>1, AtHead, KbdAssumption
<1>3. Seen' = Seen /\ UpTo(g_kbd_head)' = v
  BY <1>1, Zenon DEF Seen, View, UpTo
<1>4. /\ key <= typed /\ \A e \in 1..Len(delivered) : delivered[e] < key
      /\ v - 1 <= u /\ next # g_kbd_tail /\ (v - 1 = u => Seen[v] = key)
      /\ \A k \in 1..(v - 1) : Seen[k] < key
  BY <1>1, Zenon DEF Unpublished
<1>5. Sorted(Seen, u, delivered, typed)
  BY <1>1, Zenon DEF KeysSorted
<1> HIDE DEF u, v
<1>6. CASE v - 1 = u
  <2>1. v = u + 1 /\ typed <= typed
    BY <1>1, <1>2, <1>6
  <2>2. \A k \in 1..u : Seen[k] \in Nat
    BY <1>2
  <2>3. Sorted(Seen, u + 1, delivered, typed)
    BY <1>1, <1>2, <1>4, <1>5, <1>6, <2>1, <2>2, SortedMore, Zenon
  <2> QED
    BY <1>1, <1>3, <2>1, <2>3, Zenon DEF KeysSorted, Unpublished
<1>7. CASE v - 1 # u
  <2>1. v <= u
    BY <1>2, <1>4, <1>7
  <2>2. Sorted(Seen, v, delivered, typed)
    BY <1>2, <1>5, <2>1, SortedLess, Zenon
  <2> QED
    BY <1>1, <1>3, <2>2, Zenon DEF KeysSorted, Unpublished
<1> QED
  BY <1>6, <1>7, Zenon

\* The other steps touch neither the ring nor the history.
LEMMA OthersKeepOrder ==
    ASSUME OrderInv, UNCHANGED <<g_kbd_buf, g_kbd_head, g_kbd_tail, next, key, typed, delivered>>,
           pc' \in {"full", "store", "publish"} =>
               pc \in {"full", "store", "publish"} /\ pc' # "publish"
               /\ (pc' # "full" => next # g_kbd_tail)
    PROVE  KeysSorted' /\ Unpublished'
<1>1. Seen' = Seen /\ UpTo(g_kbd_head)' = UpTo(g_kbd_head) /\ UpTo(next)' = UpTo(next)
  BY Zenon DEF Seen, View, UpTo
<1>2. KeysSorted'
  BY <1>1, Zenon DEF OrderInv, KeysSorted
<1>3. Unpublished'
  BY <1>1, Zenon DEF OrderInv, Unpublished
<1> QED
  BY <1>2, <1>3, Zenon

LEMMA OrderStep == OrderInv /\ [KeysNext]_keyVars => OrderInv'
<1> SUFFICES ASSUME OrderInv, [KeysNext]_keyVars PROVE OrderInv'
  BY Zenon
<1>1. KeysTypeOK' /\ ReadStable'
  BY TypeStep, StableStep, Zenon DEF OrderInv
<1>2. CASE UNCHANGED keyVars
  <2>1. Seen' = Seen /\ UpTo(g_kbd_head)' = UpTo(g_kbd_head) /\ UpTo(next)' = UpTo(next)
    BY <1>2, Zenon DEF keyVars, ring, Seen, View, UpTo
  <2> QED
    BY <1>1, <1>2, <2>1, Zenon DEF OrderInv, KeysSorted, Unpublished, keyVars, ring
<1>3. CASE pit_tick \/ atkbd_getchar_test \/ atkbd_pollchar_hlt \/ atkbd_getchar_read
  <2>1. UNCHANGED <<g_kbd_buf, g_kbd_head, g_kbd_tail, next, key, typed, delivered>>
        /\ pc' \notin {"full", "store", "publish"}
    BY <1>3, Zenon
      DEF pit_tick, Wake, atkbd_getchar_test, atkbd_pollchar_hlt, atkbd_getchar_read, ring
  <2> QED
    BY <1>1, <2>1, OthersKeepOrder, Zenon DEF OrderInv
<1>4. CASE kbd_push_full
  <2>1. /\ UNCHANGED <<g_kbd_buf, g_kbd_head, g_kbd_tail, next, key, typed, delivered>>
        /\ pc = "full" /\ pc' = IF next # g_kbd_tail THEN "store" ELSE "test"
    BY <1>4, Zenon DEF kbd_push_full, ring
  <2> QED
    BY <1>1, <2>1, OthersKeepOrder, Zenon DEF OrderInv
<1> QED
  BY <1>1, <1>2, <1>3, <1>4, IrqKeepsOrder, AdvanceKeepsOrder, NextKeepsOrder, StoreKeepsOrder,
     PublishKeepsOrder, Zenon DEF KeysNext, Main, OrderInv

\* No key is delivered twice and none overtakes an earlier one, for every size
\* of the ring, also when the thread's push races with the interrupt's
\* (kbd_push, atkbd_getchar and atkbd_poll of atkbd.c).
THEOREM KeysInOrder == KeysSpec => []InOrder
<1>1. OrderInv => InOrder
  BY Zenon DEF OrderInv, KeysSorted, Sorted, InOrder
<1> QED
  BY <1>1, OrderInit, OrderStep, PTL DEF KeysSpec

-----------------------------------------------------------------------------
(* An AHCI port, AhciPort                                                  *)

\* Calls that stay on the disk and in the memory, which the caller and the
\* size check above read_blocks see to; block 0 of memory is m_id.
CallsFit ==
    /\ Size \in Nat
    /\ \A r \in Calls :
         /\ r.op \in {"read", "write"} /\ r.lba \in 1..Size /\ r.buf \in 1..Size
         /\ r.count \in Nat \ {0}
         /\ r.lba + LastBlock(r) <= Size /\ r.buf + LastBlock(r) <= Size

\* Block k of call r has been moved, with disk d and memory m.
Done(r, d, m, k) ==
    IF r.op = "identify" THEN m[0] = Identity ELSE d[r.lba + k] = m[r.buf + k]
DoneUpTo(r, d, m, n) == \A k \in 0..n : Done(r, d, m, k)

\* The command for block k of call r.
OrderOf(r, k) == [op |-> r.op, lba |-> r.lba + k, buf |-> r.buf + k]
Started(o) == [op |-> o.op, lba |-> o.lba, buf |-> o.buf, moved |-> FALSE]
Orders ==
    [op : {"identify"}, lba : {0}, buf : {0}, moved : BOOLEAN]
    \cup [op : {"read", "write"}, lba : 1..Size, buf : 1..Size, moved : BOOLEAN]

InIssue == {"gate", "build", "doorbell", "poll", "check"}

PortTypeOK ==
    /\ call \in Calls \cup {Identify} /\ i \in 0..LastBlock(call)
    /\ clean \in BOOLEAN /\ m_attached \in BOOLEAN
    /\ disk \in [1..Size -> Nat] /\ mem \in [Blocks -> Nat]
    /\ running \in {NoCommand} \cup Orders
    /\ PxCI = (running # NoCommand)

\* The first call is identify and is clean; until it is done there is no disk.
Identified ==
    /\ port_pc = "new" => running = NoCommand /\ ~m_attached
    /\ call.op = "identify" => clean
    /\ m_attached => m_lba_count = Size
    /\ port_pc = "new" => result = "none"

\* In a clean call only the call's own command runs.
OwnCommand ==
    /\ clean /\ port_pc \in InIssue \ {"poll"} => running = NoCommand
    /\ port_pc = "doorbell" => table = OrderOf(call, i) /\ (clean => prdbc = Initial)
    /\ clean /\ port_pc = "poll" /\ running # NoCommand =>
         running = [Started(OrderOf(call, i)) EXCEPT !.moved = running.moved]
    /\ clean /\ port_pc = "poll" /\ ~running.moved => prdbc = Initial

\* The byte count is whole only if the block was moved.
CountIsOwn ==
    /\ clean /\ port_pc = "poll" /\ running.moved /\ prdbc = Whole => Done(call, disk, mem, i)
    /\ clean /\ port_pc = "check" /\ prdbc = Whole => Done(call, disk, mem, i)
    /\ clean /\ port_pc \in InIssue => DoneUpTo(call, disk, mem, i - 1)
    /\ clean /\ port_pc = "out" /\ result = "ok" =>
         running = NoCommand /\ DoneUpTo(call, disk, mem, LastBlock(call))

PortInv == PortTypeOK /\ Identified /\ OwnCommand /\ CountIsOwn

-----------------------------------------------------------------------------
LEMMA CallIs ==
    ASSUME CallsFit, NEW r \in Calls
    PROVE  /\ r.op \in {"read", "write"} /\ r.lba \in 1..Size /\ r.buf \in 1..Size
           /\ LastBlock(r) \in Nat /\ Size \in Nat
           /\ r.lba + LastBlock(r) <= Size /\ r.buf + LastBlock(r) <= Size
BY DEF CallsFit, LastBlock

\* The command for a block of a call is one the controller can execute.
LEMMA OrdersFit ==
    ASSUME CallsFit, NEW r \in Calls \cup {Identify}, NEW k \in 0..LastBlock(r)
    PROVE  /\ Started(OrderOf(r, k)) \in Orders /\ Started(OrderOf(r, k)) # NoCommand
           /\ LastBlock(r) \in Nat
<1>1. CASE r = Identify
  <2>1. LastBlock(r) = 0 /\ k = 0
    BY <1>1 DEF LastBlock, Identify
  <2> QED
    BY <1>1, <2>1 DEF OrderOf, Started, Orders, Identify, NoCommand
<1>2. CASE r \in Calls
  <2>1. /\ r.op \in {"read", "write"} /\ r.lba \in 1..Size /\ r.buf \in 1..Size
        /\ LastBlock(r) \in Nat /\ Size \in Nat
        /\ r.lba + LastBlock(r) <= Size /\ r.buf + LastBlock(r) <= Size
    BY <1>2, CallIs, Zenon
  <2>2. r.lba + k \in 1..Size /\ r.buf + k \in 1..Size
    BY <2>1
  <2> QED
    BY <2>1, <2>2, Zenon DEF OrderOf, Started, Orders, NoCommand
<1> QED
  BY <1>1, <1>2, Zenon

\* What the command o leaves on the disk and in memory.
MovedDisk(o, d, m) == IF o.op = "write" THEN [d EXCEPT ![o.lba] = m[o.buf]] ELSE d
MovedMem(o, d, m) ==
    CASE o.op = "write"    -> m
      [] o.op = "read"     -> [m EXCEPT ![o.buf] = d[o.lba]]
      [] o.op = "identify" -> [m EXCEPT ![o.buf] = Identity]

LEMMA MovingKeepsTypes ==
    ASSUME CallsFit, NEW o \in Orders, NEW d \in [1..Size -> Nat], NEW m \in [Blocks -> Nat]
    PROVE  MovedDisk(o, d, m) \in [1..Size -> Nat] /\ MovedMem(o, d, m) \in [Blocks -> Nat]
<1>1. Size \in Nat
  BY Zenon DEF CallsFit
<1>2. CASE o.op = "identify"
  <2>1. o.buf \in Blocks /\ Identity \in Nat
    BY <1>1, <1>2 DEF Orders, Blocks, Identity
  <2>2. MovedDisk(o, d, m) = d /\ MovedMem(o, d, m) = [m EXCEPT ![o.buf] = Identity]
    BY <1>2, Zenon DEF MovedDisk, MovedMem
  <2> QED
    BY <2>1, <2>2, Zenon
<1>3. CASE o.op = "read"
  <2>1. o.buf \in Blocks /\ d[o.lba] \in Nat
    BY <1>1, <1>3 DEF Orders, Blocks
  <2>2. MovedDisk(o, d, m) = d /\ MovedMem(o, d, m) = [m EXCEPT ![o.buf] = d[o.lba]]
    BY <1>3, Zenon DEF MovedDisk, MovedMem
  <2> QED
    BY <2>1, <2>2, Zenon
<1>4. CASE o.op = "write"
  <2>1. m[o.buf] \in Nat
    <3>1. o.buf \in Blocks
      BY <1>1, <1>4 DEF Orders, Blocks
    <3> QED
      BY <3>1, Zenon
  <2>2. MovedDisk(o, d, m) = [d EXCEPT ![o.lba] = m[o.buf]] /\ MovedMem(o, d, m) = m
    BY <1>4, Zenon DEF MovedDisk, MovedMem
  <2> QED
    BY <2>1, <2>2, Zenon
<1> QED
  BY <1>2, <1>3, <1>4, Zenon DEF Orders

LEMMA BlockPlaces ==
    ASSUME NEW z \in Nat, NEW a \in 1..z, NEW n \in Nat, a + n <= z, NEW k \in 0..n, NEW j \in 0..k
    PROVE  a + j \in 1..z /\ a + j \in 0..z /\ (j # k => a + j # a + k)
OBVIOUS

\* Moving block k of a call gets it done, and leaves the ones before it done.
LEMMA MovingGetsDone ==
    ASSUME CallsFit, NEW r \in Calls \cup {Identify}, NEW k \in 0..LastBlock(r),
           NEW d \in [1..Size -> Nat], NEW m \in [Blocks -> Nat], NEW o,
           o.op = r.op, o.lba = r.lba + k, o.buf = r.buf + k,
           DoneUpTo(r, d, m, k - 1)
    PROVE  /\ Done(r, MovedDisk(o, d, m), MovedMem(o, d, m), k)
           /\ DoneUpTo(r, MovedDisk(o, d, m), MovedMem(o, d, m), k - 1)
<1>1. CASE r = Identify
  <2>1. k = 0 /\ o.buf = 0 /\ o.op = "identify" /\ r.op = "identify" /\ 0 \in Blocks
    BY <1>1 DEF LastBlock, Identify, Blocks, CallsFit
  <2>2. MovedMem(o, d, m)[0] = Identity
    BY <2>1, Zenon DEF MovedMem
  <2> QED
    BY <2>1, <2>2, Zenon DEF Done, DoneUpTo
<1>2. CASE r \in Calls
  <2>1. /\ r.op \in {"read", "write"} /\ r.lba \in 1..Size /\ r.buf \in 1..Size
        /\ LastBlock(r) \in Nat /\ Size \in Nat
        /\ r.lba + LastBlock(r) <= Size /\ r.buf + LastBlock(r) <= Size
    BY <1>2, CallIs, Zenon
  <2>2. \A j \in 0..k : /\ r.lba + j \in 1..Size /\ r.buf + j \in Blocks
                        /\ j # k => r.lba + j # r.lba + k /\ r.buf + j # r.buf + k
    <3> SUFFICES ASSUME NEW j \in 0..k
                 PROVE  /\ r.lba + j \in 1..Size /\ r.buf + j \in Blocks
                        /\ j # k => r.lba + j # r.lba + k /\ r.buf + j # r.buf + k
      BY Zenon
    <3>1. r.lba + j \in 1..Size /\ (j # k => r.lba + j # r.lba + k)
      BY <2>1, BlockPlaces, Zenon
    <3>2. r.buf + j \in 0..Size /\ (j # k => r.buf + j # r.buf + k)
      BY <2>1, BlockPlaces, Zenon
    <3> QED
      BY <3>1, <3>2, Zenon DEF Blocks
  <2>3. k \in 0..k /\ \A j \in 0..(k - 1) : j \in 0..k /\ j # k
    BY <2>1
  <2>4. \A j \in 0..(k - 1) : d[r.lba + j] = m[r.buf + j]
    BY <2>1, Zenon DEF DoneUpTo, Done
  <2>5. CASE r.op = "read"
    <3>1. MovedDisk(o, d, m) = d /\ MovedMem(o, d, m) = [m EXCEPT ![r.buf + k] = d[r.lba + k]]
      BY <2>5, Zenon DEF MovedDisk, MovedMem
    <3>2. \A j \in 0..k : d[r.lba + j] = MovedMem(o, d, m)[r.buf + j]
      <4> SUFFICES ASSUME NEW j \in 0..k PROVE d[r.lba + j] = MovedMem(o, d, m)[r.buf + j]
        BY Zenon
      <4>1. CASE j = k
        BY <2>2, <3>1, <4>1, ZenonT(30)
      <4>2. CASE j # k
        <5>1. /\ r.lba + j \in 1..Size /\ r.buf + j \in Blocks
              /\ r.lba + j # r.lba + k /\ r.buf + j # r.buf + k
          BY <2>2, <4>2, Zenon
        <5>2. d[r.lba + j] = m[r.buf + j]
          <6>1. j \in 0..(k - 1)
            BY <2>1, <4>2
          <6> QED
            BY <2>4, <6>1, Zenon
        <5> QED
          BY <3>1, <5>1, <5>2, Zenon
      <4> QED
        BY <4>1, <4>2, Zenon
    <3> QED
      BY <2>1, <2>3, <3>1, <3>2, Zenon DEF Done, DoneUpTo
  <2>6. CASE r.op = "write"
    <3>1. MovedDisk(o, d, m) = [d EXCEPT ![r.lba + k] = m[r.buf + k]] /\ MovedMem(o, d, m) = m
      BY <2>6, Zenon DEF MovedDisk, MovedMem
    <3>2. \A j \in 0..k : MovedDisk(o, d, m)[r.lba + j] = m[r.buf + j]
      <4> SUFFICES ASSUME NEW j \in 0..k PROVE MovedDisk(o, d, m)[r.lba + j] = m[r.buf + j]
        BY Zenon
      <4>1. CASE j = k
        BY <2>2, <3>1, <4>1, Zenon
      <4>2. CASE j # k
        <5>1. /\ r.lba + j \in 1..Size /\ r.buf + j \in Blocks
              /\ r.lba + j # r.lba + k /\ r.buf + j # r.buf + k
          BY <2>2, <4>2, Zenon
        <5>2. d[r.lba + j] = m[r.buf + j]
          <6>1. j \in 0..(k - 1)
            BY <2>1, <4>2
          <6> QED
            BY <2>4, <6>1, Zenon
        <5> QED
          BY <3>1, <5>1, <5>2, Zenon
      <4> QED
        BY <4>1, <4>2, Zenon
    <3> QED
      BY <2>1, <2>3, <3>1, <3>2, Zenon DEF Done, DoneUpTo
  <2> QED
    BY <2>1, <2>5, <2>6, Zenon
<1> QED
  BY <1>1, <1>2, Zenon

LEMMA NothingYet == \A r, d, m : DoneUpTo(r, d, m, 0 - 1)
BY DEF DoneUpTo

-----------------------------------------------------------------------------
LEMMA PortInitInv == CallsFit /\ PortInit => PortInv
<1> SUFFICES ASSUME CallsFit, PortInit PROVE PortInv
  BY Zenon
<1>1. Size \in Nat /\ LastBlock(Identify) = 0
  BY DEF CallsFit, LastBlock, Identify
<1>2. disk \in [1..Size -> Nat] /\ mem \in [Blocks -> Nat]
  BY <1>1 DEF PortInit, Blocks
<1>3. PortTypeOK
  <2>1. PxCI = (running # NoCommand)
    BY Zenon DEF PortInit
  <2>2. i \in 0..LastBlock(call)
    BY <1>1 DEF PortInit
  <2> QED
    BY <1>2, <2>1, <2>2, Zenon DEF PortInit, PortTypeOK
<1>4. Identified /\ OwnCommand /\ CountIsOwn
  BY Zenon DEF PortInit, Identified, OwnCommand, CountIsOwn, InIssue
<1> QED
  BY <1>3, <1>4, Zenon DEF PortInv

\* A call begins, with the memory it finds.
LEMMA CallBegins ==
    ASSUME CallsFit, PortInv, NEW r \in Calls \cup {Identify}, Begin(r),
           r = Identify => running = NoCommand, mem' \in [Blocks -> Nat],
           UNCHANGED <<m_attached, m_lba_count, device>>
    PROVE  PortInv'
<1>1. LastBlock(r) \in Nat /\ 0 \in 0..LastBlock(r)
  BY OrdersFit DEF CallsFit, LastBlock, Identify
<1>2. PortTypeOK'
  BY <1>1, Zenon DEF PortInv, PortTypeOK, Begin, device
<1>3. r.op = "identify" => r = Identify
  BY Zenon DEF CallsFit
<1>4. Identified'
  BY <1>3, Zenon DEF PortInv, Identified, Begin, device
<1>5. OwnCommand'
  BY Zenon DEF OwnCommand, Begin, device, InIssue
<1>6. CountIsOwn'
  BY NothingYet, Zenon DEF CountIsOwn, Begin, InIssue
<1> QED
  BY <1>2, <1>4, <1>5, <1>6, Zenon DEF PortInv

LEMMA ProbeKeeps ==
    ASSUME CallsFit, PortInv, NEW there \in BOOLEAN, probe(there)
    PROVE  PortInv'
<1>1. CASE there
  <2>1. 0 \in Blocks /\ Filler \in Nat
    BY DEF CallsFit, Blocks, Filler
  <2>2. mem' \in [Blocks -> Nat]
    BY <1>1, <2>1, Zenon DEF probe, PortInv, PortTypeOK
  <2>3. running = NoCommand
    BY Zenon DEF probe, PortInv, Identified
  <2>4. Begin(Identify) /\ UNCHANGED <<m_attached, m_lba_count, device>>
    BY <1>1, Zenon DEF probe
  <2> QED
    BY <2>2, <2>3, <2>4, CallBegins, Zenon
<1>2. CASE ~there
  <2>1. port_pc' = "out" /\ result' = "none"
        /\ UNCHANGED <<m_attached, m_lba_count, call, i, clean, mem, device, table, prdbc>>
    BY <1>2, Zenon DEF probe, PortInv, Identified
  <2> QED
    BY <2>1, Zenon DEF PortInv, PortTypeOK, Identified, OwnCommand, CountIsOwn, device, InIssue
<1> QED
  BY <1>1, <1>2, Zenon

LEMMA TransferKeeps ==
    ASSUME CallsFit, PortInv, NEW r \in Calls, transfer(r)
    PROVE  PortInv'
<1>1. r # Identify
  BY DEF CallsFit, Identify
<1>2. Begin(r) /\ mem' \in [Blocks -> Nat] /\ UNCHANGED <<m_attached, m_lba_count, device>>
  BY Zenon DEF transfer, PortInv, PortTypeOK
<1> QED
  BY <1>1, <1>2, CallBegins, Zenon

\* A call fails.
LEMMA FailureKeeps ==
    ASSUME PortInv, Fails, UNCHANGED <<call, clean, table, prdbc, device, mem>>
    PROVE  PortInv'
BY Zenon DEF PortInv, PortTypeOK, Identified, OwnCommand, CountIsOwn, device, InIssue, Fails

LEMMA GateKeeps == PortInv /\ issue_gate => PortInv'
<1> SUFFICES ASSUME PortInv, issue_gate PROVE PortInv'
  BY Zenon
<1>1. CASE bit15
  BY <1>1, FailureKeeps, Zenon DEF issue_gate
<1>2. CASE ~bit15
  BY <1>2, Zenon
    DEF issue_gate, PortInv, PortTypeOK, Identified, OwnCommand, CountIsOwn, device, InIssue
<1> QED
  BY <1>1, <1>2, Zenon

LEMMA BuildKeeps == PortInv /\ issue_build => PortInv'
<1> SUFFICES ASSUME PortInv, issue_build PROVE PortInv'
  BY Zenon
<1>1. PortTypeOK'
  BY Zenon DEF issue_build, PortInv, PortTypeOK, device
<1>2. Identified'
  BY Zenon DEF issue_build, PortInv, Identified, device
<1>3. OwnCommand'
  BY Zenon DEF issue_build, PortInv, OwnCommand, device, InIssue, OrderOf
<1>4. CountIsOwn'
  BY Zenon DEF issue_build, PortInv, CountIsOwn, device, InIssue
<1> QED
  BY <1>1, <1>2, <1>3, <1>4, Zenon DEF PortInv

LEMMA DoorbellKeeps == CallsFit /\ PortInv /\ issue_doorbell => PortInv'
<1> SUFFICES ASSUME CallsFit, PortInv, issue_doorbell PROVE PortInv'
  BY Zenon
<1> DEFINE new == Started(OrderOf(call, i))
<1>1. table = OrderOf(call, i)
  BY Zenon DEF issue_doorbell, PortInv, OwnCommand
<1>2. new \in Orders /\ new # NoCommand
  BY OrdersFit, Zenon DEF PortInv, PortTypeOK
<1>3. running' = IF PxCI THEN running ELSE new
  BY <1>1, Zenon DEF issue_doorbell, Started
<1>4. new.moved = FALSE /\ new = [new EXCEPT !.moved = new.moved]
  BY Zenon DEF Started
<1> HIDE DEF new
<1>5. running' \in Orders /\ running' # NoCommand /\ (clean => running' = new)
  BY <1>2, <1>3, Zenon DEF PortInv, PortTypeOK, OwnCommand, InIssue, issue_doorbell
<1>6. PortTypeOK'
  BY <1>5, Zenon DEF issue_doorbell, PortInv, PortTypeOK
<1>7. Identified'
  BY Zenon DEF issue_doorbell, PortInv, Identified
<1>8. OwnCommand'
  BY <1>4, <1>5, Zenon DEF issue_doorbell, PortInv, OwnCommand, InIssue, new
<1>9. CountIsOwn'
  BY <1>4, <1>5, Zenon DEF issue_doorbell, PortInv, CountIsOwn, InIssue
<1> QED
  BY <1>6, <1>7, <1>8, <1>9, Zenon DEF PortInv

LEMMA PollKeeps == PortInv /\ issue_poll => PortInv'
<1> SUFFICES ASSUME PortInv, issue_poll PROVE PortInv'
  BY Zenon
<1>1. running = NoCommand /\ running.moved
  <2>1. running = NoCommand
    BY Zenon DEF issue_poll, PortInv, PortTypeOK
  <2> QED
    BY <2>1, Zenon DEF NoCommand
<1>2. PortTypeOK'
  BY Zenon DEF issue_poll, PortInv, PortTypeOK, device
<1>3. Identified'
  BY Zenon DEF issue_poll, PortInv, Identified, device
<1>4. OwnCommand'
  BY <1>1, Zenon DEF issue_poll, PortInv, OwnCommand, device, InIssue
<1>5. CountIsOwn'
  BY <1>1, Zenon DEF issue_poll, PortInv, CountIsOwn, device, InIssue
<1> QED
  BY <1>2, <1>3, <1>4, <1>5, Zenon DEF PortInv

LEMMA CheckKeeps == CallsFit /\ PortInv /\ issue_check => PortInv'
<1> SUFFICES ASSUME CallsFit, PortInv, issue_check PROVE PortInv'
  BY Zenon
<1>1. CASE prdbc # Whole
  BY <1>1, FailureKeeps, Zenon DEF issue_check
<1>2. CASE prdbc = Whole
  <2>1. Succeeds /\ UNCHANGED <<call, clean, table, prdbc, device, mem>> /\ port_pc = "check"
    BY <1>2, Zenon DEF issue_check
  <2>2. LastBlock(call) \in Nat /\ i \in 0..LastBlock(call)
    BY OrdersFit, Zenon DEF PortInv, PortTypeOK
  <2>3. clean => DoneUpTo(call, disk, mem, i) /\ running = NoCommand
    <3> SUFFICES ASSUME clean PROVE DoneUpTo(call, disk, mem, i) /\ running = NoCommand
      BY Zenon
    <3>1. Done(call, disk, mem, i) /\ DoneUpTo(call, disk, mem, i - 1) /\ running = NoCommand
      BY <1>2, <2>1, Zenon DEF PortInv, CountIsOwn, OwnCommand, InIssue
    <3>2. \A k \in 0..i : k = i \/ k \in 0..(i - 1)
      BY <2>2
    <3> QED
      BY <3>1, <3>2, Zenon DEF DoneUpTo
  <2>4. PortTypeOK'
    <3>1. i' \in 0..LastBlock(call)
      BY <2>1, <2>2 DEF Succeeds
    <3>2. m_attached' \in BOOLEAN
      BY <2>1, Zenon DEF PortInv, PortTypeOK, Succeeds
    <3> QED
      BY <2>1, <3>1, <3>2, Zenon DEF PortInv, PortTypeOK, device
  <2>5. call.op = "identify" => mem[0] = Identity
    BY <2>2, <2>3 DEF PortInv, Identified, DoneUpTo, Done
  <2>6. Identified'
    BY <2>1, <2>5, Zenon DEF PortInv, Identified, Succeeds, device
  <2>7. OwnCommand'
    BY <2>1, <2>3, Zenon DEF OwnCommand, Succeeds, device, InIssue
  <2>8. CountIsOwn'
    <3>1. CASE i < LastBlock(call)
      <4>1. i' - 1 = i /\ port_pc' = "gate"
        BY <2>1, <2>2, <3>1 DEF Succeeds
      <4> QED
        BY <2>1, <2>3, <4>1, Zenon DEF CountIsOwn, device
    <3>2. CASE ~(i < LastBlock(call))
      <4>1. i = LastBlock(call) /\ port_pc' = "out"
        BY <2>1, <2>2, <3>2 DEF Succeeds
      <4> QED
        BY <2>1, <2>3, <4>1, Zenon DEF CountIsOwn, device, InIssue
    <3> QED
      BY <3>1, <3>2, Zenon
  <2> QED
    BY <2>4, <2>6, <2>7, <2>8, Zenon DEF PortInv
<1> QED
  BY <1>1, <1>2, Zenon

LEMMA MoveKeeps == CallsFit /\ PortInv /\ Move => PortInv'
<1> SUFFICES ASSUME CallsFit, PortInv, Move PROVE PortInv'
  BY Zenon
<1>1. running \in Orders /\ running # NoCommand /\ ~running.moved /\ PxCI
  BY Zenon DEF Move, PortInv, PortTypeOK
<1>2. disk' = MovedDisk(running, disk, mem) /\ mem' = MovedMem(running, disk, mem)
  BY Zenon DEF Move, MovedDisk, MovedMem
<1>3. disk' \in [1..Size -> Nat] /\ mem' \in [Blocks -> Nat]
  BY <1>1, <1>2, MovingKeepsTypes, Zenon DEF PortInv, PortTypeOK
<1>4. running' \in Orders /\ running' # NoCommand /\ running'.moved = TRUE
  <2>1. running' = [running EXCEPT !.moved = TRUE]
    BY Zenon DEF Move
  <2>2. running' \in Orders /\ running'.moved = TRUE
    BY <1>1, <2>1, Zenon DEF Orders
  <2>3. running' # NoCommand
    BY <2>2 DEF Orders, NoCommand
  <2> QED
    BY <2>2, <2>3, Zenon
<1>5. PortTypeOK'
  BY <1>1, <1>3, <1>4, Zenon DEF Move, PortInv, PortTypeOK, driver
<1>6. Identified'
  BY <1>1, Zenon DEF Move, PortInv, Identified, driver
<1>7. clean => port_pc \notin InIssue \ {"poll"} /\ ~(port_pc = "out" /\ result = "ok")
  BY <1>1, Zenon DEF PortInv, OwnCommand, CountIsOwn
<1>8. OwnCommand'
  <2>1. clean /\ port_pc = "poll" => running' = [Started(OrderOf(call, i)) EXCEPT !.moved = TRUE]
    <3> DEFINE new == Started(OrderOf(call, i))
    <3> SUFFICES ASSUME clean, port_pc = "poll" PROVE running' = [new EXCEPT !.moved = TRUE]
      BY Zenon
    <3>1. running = [new EXCEPT !.moved = running.moved]
      BY <1>1, Zenon DEF PortInv, OwnCommand
    <3>2. running' = [running EXCEPT !.moved = TRUE]
      BY Zenon DEF Move
    <3> QED
      BY <3>1, <3>2, Zenon DEF Started
  <2> QED
    BY <1>4, <1>7, <2>1, Zenon DEF Move, PortInv, OwnCommand, driver, InIssue
<1>9. CountIsOwn'
  <2>1. clean /\ port_pc = "poll" => Done(call, disk', mem', i) /\ DoneUpTo(call, disk', mem', i - 1)
    <3> SUFFICES ASSUME clean, port_pc = "poll"
                 PROVE  Done(call, disk', mem', i) /\ DoneUpTo(call, disk', mem', i - 1)
      BY Zenon
    <3>1. running = [Started(OrderOf(call, i)) EXCEPT !.moved = running.moved]
      BY <1>1, Zenon DEF PortInv, OwnCommand
    <3>2. running.op = call.op /\ running.lba = call.lba + i /\ running.buf = call.buf + i
      BY <3>1, Zenon DEF Started, OrderOf
    <3>3. DoneUpTo(call, disk, mem, i - 1)
      BY Zenon DEF PortInv, CountIsOwn, InIssue
    <3> QED
      BY <1>2, <3>2, <3>3, MovingGetsDone, Zenon DEF PortInv, PortTypeOK
  <2> QED
    BY <1>7, <2>1, Zenon DEF Move, CountIsOwn, driver, InIssue
<1> QED
  BY <1>5, <1>6, <1>8, <1>9, Zenon DEF PortInv

\* A command ends, having moved its block or, with an error, not.
LEMMA EndKeeps ==
    ASSUME PortInv, running # NoCommand, running' = NoCommand, PxCI' = FALSE,
           UNCHANGED <<driver, table, prdbc, disk, mem>>
    PROVE  PortInv'
<1>1. PortTypeOK'
  BY Zenon DEF PortInv, PortTypeOK, driver
<1>2. Identified'
  BY Zenon DEF PortInv, Identified, driver
<1>3. OwnCommand'
  BY Zenon DEF PortInv, OwnCommand, driver, NoCommand
<1>4. clean /\ port_pc = "poll" /\ prdbc = Whole => running.moved
  BY DEF PortInv, OwnCommand, Initial, Whole
<1>5. CountIsOwn'
  BY <1>4, Zenon DEF PortInv, CountIsOwn, driver
<1> QED
  BY <1>1, <1>2, <1>3, <1>5, Zenon DEF PortInv

LEMMA PortStep == CallsFit /\ PortInv /\ [PortNext]_portVars => PortInv'
<1> SUFFICES ASSUME CallsFit, PortInv, [PortNext]_portVars PROVE PortInv'
  BY Zenon
<1>1. CASE UNCHANGED portVars
  BY <1>1 DEF portVars, driver, device, PortInv, PortTypeOK, Identified, OwnCommand, CountIsOwn
<1>2. CASE issue_timeout
  BY <1>2, FailureKeeps, Zenon DEF issue_timeout
<1>3. CASE Complete
  BY <1>3, EndKeeps, Zenon DEF Complete
<1>4. ASSUME NEW crc \in BOOLEAN, Error(crc) PROVE PortInv'
  BY <1>4, EndKeeps, Zenon DEF Error
<1> QED
  BY <1>1, <1>2, <1>3, <1>4, ProbeKeeps, TransferKeeps, GateKeeps, BuildKeeps, DoorbellKeeps,
     PollKeeps, CheckKeeps, MoveKeeps, Zenon DEF PortNext

\* Whatever is late or fails, a call that began with no command left running
\* and reports success has moved its sectors, and a disk is attached with its
\* own size (issue, read_blocks and identify of ahci.cpp), for every size of
\* the disk and every set of calls that fit on it.
THEOREM SuccessMeansMoved == CallsFit /\ PortSpec => []BlocksMoved
<1>1. PortInv => BlocksMoved
  BY Zenon DEF PortInv, CountIsOwn, Identified, BlocksMoved, DoneUpTo, Done
<1>2. CallsFit /\ PortInit => CallsFit /\ PortInv
  BY PortInitInv, Zenon
<1>3. (CallsFit /\ PortInv) /\ [PortNext]_portVars => (CallsFit /\ PortInv)'
  BY PortStep, Zenon
<1> QED
  BY <1>1, <1>2, <1>3, PTL DEF PortSpec
=============================================================================
