------------------------------- MODULE Paging -------------------------------
(***************************************************************************)
(* The page tables: osfmk/vm/paging.c, and the switches of cr3 by the      *)
(* scheduler, elf_load_pd and task_build_argv.                             *)
(*                                                                         *)
(* A virtual address is its four table indices.  Index 0 of the top table  *)
(* is the low tree that every address space shares, index 1 stands for the *)
(* rest of the user half.  Frames hold tables or data; tab[f] is what      *)
(* frame f holds as a table.  The low tree starts as the boot loader left  *)
(* it: one directory of 2 MiB leaves that map every address to itself.     *)
(***************************************************************************)
EXTENDS Integers, FiniteSets

CONSTANTS
    NFree,      \* frames the allocator has left
    Identity,   \* addresses that drivers map to themselves
    Images,     \* addresses that images and arguments are loaded at
    MaxSpaces   \* bound: address spaces created

VARIABLES
    tab, free,
    spaces,     \* the top tables
    cur,        \* cr3
    family,     \* the address space a chain of vforks goes back to
    ret, asked  \* last result of paging_alloc_and_map, and its address

tableVars == <<tab, free, spaces, cur, family, ret, asked>>

VA == ({0} \X {0} \X {0, 1} \X {0, 1}) \cup {<<1, 0, 0, 0>>, <<1, 0, 0, 1>>}

ASSUME TablesAssumption ==
    NFree \in Nat /\ Identity \subseteq VA /\ Images \subseteq VA

Frames == 0..(NFree + 2)
Cache  == {"wb", "uc"}

None           == [kind |-> "none", to |-> 0, cache |-> "wb"]
Table(f)       == [kind |-> "table", to |-> f, cache |-> "wb"]
Page(p, cache) == [kind |-> "page", to |-> p, cache |-> cache]
ZeroTable      == [n \in {0, 1} |-> None]

\* The physical address equal to a virtual one, apart from all frames.
Same(v) == 100 + 4 * v[1] + 2 * v[3] + v[4]

TablesInit ==
    /\ tab = [f \in Frames |->
                 CASE f = 0 -> [ZeroTable EXCEPT ![0] = Table(1)]
                   [] f = 1 -> [ZeroTable EXCEPT ![0] = Table(2)]
                   [] f = 2 -> [n \in {0, 1} |->
                                  [kind |-> "big", to |-> 100 + 2 * n, cache |-> "wb"]]
                   [] OTHER -> ZeroTable]
    /\ free = 3..(NFree + 2)
    /\ spaces = {0} /\ cur = 0 /\ family = [f \in Frames |-> f]
    /\ ret = 0 /\ asked = <<>>

\* pmm_alloc; which frame it is makes no difference here.
Pick(fr) == CHOOSE f \in fr : TRUE

-----------------------------------------------------------------------------
(* The walk of the hardware                                                *)

At(tb, f, n) == tb[f][n]

Leaf(tb, v, pd) ==
    LET e == At(tb, pd.to, v[3])
    IN  CASE e.kind = "table" -> At(tb, e.to, v[4])
          [] e.kind = "big"   -> Page(e.to + v[4], e.cache)
          [] OTHER            -> None

Translate(tb, s, v) ==
    LET pdpt == At(tb, s, v[1])
        pd   == At(tb, pdpt.to, v[2])
    IN  IF pdpt.kind = "none" \/ pd.kind = "none" THEN None ELSE Leaf(tb, v, pd)

-----------------------------------------------------------------------------
(* paging_map_page, on a record of tables, free frames and whether a table *)
(* could not be had; every level that is missing is made on the way down   *)

Ensure(m, f, n) ==
    IF ~m.ok \/ At(m.tab, f, n).kind # "none" THEN m
    ELSE IF m.free = {} THEN [m EXCEPT !.ok = FALSE]
    ELSE LET t == Pick(m.free)
         IN  [ok |-> TRUE, free |-> m.free \ {t},
              tab |-> [m.tab EXCEPT ![t] = ZeroTable, ![f][n] = Table(t)]]

\* Fault: the neighbours in the split leaf are not filled in.
Split_Empty(m, f, n, cache) ==
    IF ~m.ok \/ At(m.tab, f, n).kind # "big" THEN m
    ELSE IF m.free = {} THEN [m EXCEPT !.ok = FALSE]
    ELSE LET t == Pick(m.free)
         IN  [ok |-> TRUE, free |-> m.free \ {t},
              tab |-> [m.tab EXCEPT ![f][n] = Table(t), ![t] = ZeroTable]]

Split(m, f, n, cache) ==
    IF ~m.ok \/ At(m.tab, f, n).kind # "big" THEN m
    ELSE IF m.free = {} THEN [m EXCEPT !.ok = FALSE]
    ELSE LET t   == Pick(m.free)
             big == At(m.tab, f, n)
             c   == IF cache = "uc" THEN cache ELSE big.cache
         IN  [ok |-> TRUE, free |-> m.free \ {t},
              tab |-> [m.tab EXCEPT ![f][n] = Table(t),
                                    ![t] = [d \in {0, 1} |-> Page(big.to + d, c)]]]

paging_map_page(m, v, p, cache) ==
    LET m1   == Ensure(m, cur, v[1])
        pdpt == At(m1.tab, cur, v[1]).to
        m2   == Ensure(m1, pdpt, v[2])
        pd   == At(m2.tab, pdpt, v[2]).to
        m3   == Split(Ensure(m2, pd, v[3]), pd, v[3], cache)
        pt   == At(m3.tab, pd, v[3]).to
    IN  IF m3.ok THEN [m3 EXCEPT !.tab[pt][v[4]] = Page(p, cache)] ELSE m3

Memory == [tab |-> tab, free |-> free, ok |-> TRUE]

\* A driver maps registers or buffers to themselves.
Map(v, cache) ==
    LET m == paging_map_page(Memory, v, Same(v), cache)
    IN  /\ tab' = m.tab /\ free' = m.free
        /\ ret' = 0 /\ asked' = v
        /\ UNCHANGED <<spaces, cur, family>>

\* The frame is returned whether or not it could be mapped.
paging_alloc_and_map(v) ==
    /\ IF free = {}
         THEN ret' = 0 /\ UNCHANGED <<tab, free>>
         ELSE LET p == Pick(free)
                  m == paging_map_page([Memory EXCEPT !.free = @ \ {p}], v, p, "wb")
              IN  tab' = m.tab /\ free' = m.free /\ ret' = p
    /\ asked' = v
    /\ UNCHANGED <<spaces, cur, family>>

\* Fault: a fresh address space starts with its maker's user half.
paging_clone_pd_Full(s) ==
    [n \in {0, 1} |-> tab[s][n]]

\* The new top table of paging_clone_pd and of paging_vfork_clone.
paging_clone_pd(s)    == [ZeroTable EXCEPT ![0] = tab[s][0]]
paging_vfork_clone(s) == tab[s]

NewSpace(table, shared) ==
    /\ Cardinality(spaces) < MaxSpaces /\ free # {}
    /\ LET t == Pick(free)
       IN  /\ free' = free \ {t}
           /\ tab' = [tab EXCEPT ![t] = table]
           /\ spaces' = spaces \cup {t}
           /\ family' = [family EXCEPT ![t] = IF shared THEN family[cur] ELSE t]
    /\ ret' = 0 /\ asked' = <<>> /\ UNCHANGED cur

Clone == NewSpace(paging_clone_pd(cur), FALSE)
Vfork == NewSpace(paging_vfork_clone(cur), TRUE)

load_cr3(s) ==
    /\ s # cur
    /\ cur' = s /\ ret' = 0 /\ asked' = <<>>
    /\ UNCHANGED <<tab, free, spaces, family>>

TablesNext ==
    \/ \E v \in Identity, c \in Cache : Map(v, c)
    \/ \E v \in Images : paging_alloc_and_map(v)
    \/ Clone \/ Vfork
    \/ \E s \in spaces : load_cr3(s)

TablesSpec == TablesInit /\ [][TablesNext]_tableVars

-----------------------------------------------------------------------------
\* Mapping a page changes where that page goes and nothing else, in any
\* address space: making tables and splitting a 2 MiB leaf keep every
\* neighbour's frame, and its caching too unless registers are being mapped.
\* The page itself goes to the frame returned, as long as frames remain.
MapsOnlyAsked ==
    [][/\ \A s \in spaces, v \in VA :
             LET old == Translate(tab, s, v)
                 new == Translate(tab, s, v)'
             IN  v # asked' => new.kind = old.kind /\ new.to = old.to
                               /\ (new.cache # old.cache => new.cache = "uc")
       /\ (ret' # 0 /\ free' # {}) => Translate(tab, cur, asked)' = Page(ret', "wb")]_tableVars

\* All address spaces have the same low 512 GiB at all times, whoever maps
\* there: the kernel relies on it, and user images and argv pages placed there
\* replace those of every other task.  Above it two address spaces share a
\* table only through vfork.
OnlyLowTreeShared ==
    /\ \A v \in VA, s \in spaces : v[1] = 0 => Translate(tab, s, v) = Translate(tab, cur, v)
    /\ \A s, u \in spaces :
          (s # u /\ tab[s][1].kind = "table" /\ tab[s][1] = tab[u][1]) => family[s] = family[u]
=============================================================================
