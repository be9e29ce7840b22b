------------------------------- MODULE Devfs --------------------------------
(***************************************************************************)
(* The device tree of bsd/devfs/devfs.c and the boot steps that fill it:   *)
(* usbhid_add_node for each HID interface that usb_setup or, later, a      *)
(* hot-plug event finds; devfs_init in io_storage_init; devfs_init and the *)
(* static tree in hw_report_scan.                                          *)
(*                                                                         *)
(* A path is the sequence of its components after normalize_path, so all   *)
(* paths start with "dev".  nodes[k] is g_nodes[k - 1]; of a node its      *)
(* name, its type, its parent and its children matter.                     *)
(***************************************************************************)
EXTENDS Integers, Sequences, SequencesExt

CONSTANTS
    DEVFS_MAX_NODES, DEVFS_MAX_CHILDREN,
    MaxHids     \* bound: HID interfaces found

VARIABLES
    nodes, next_id,
    boot,       \* what the boot has done: "start", "storage", "scanned"
    usb_dir_made,
    hids        \* HID interfaces found so far

deviceVars == <<nodes, next_id, boot, usb_dir_made, hids>>

Root == [name |-> "dev", dir |-> TRUE, parent |-> 1, children |-> <<>>, id |-> 1]

\* Before devfs_init there is no node; lookups see an all-zero root.
DevicesInit ==
    /\ nodes = <<>> /\ next_id = 1
    /\ boot = "start"
    /\ usb_dir_made = FALSE /\ hids = 0

-----------------------------------------------------------------------------
(* Lookup.  0 is the null pointer.                                         *)

find_child(ns, parent, name) ==
    LET kids == ns[parent].children
    IN  IF \E j \in DOMAIN kids : ns[kids[j]].name = name
          THEN kids[CHOOSE j \in DOMAIN kids :
                      /\ ns[kids[j]].name = name
                      /\ \A l \in 1..(j - 1) : ns[kids[l]].name # name]
          ELSE 0

Step(ns, k, name) == IF k = 0 THEN 0 ELSE find_child(ns, k, name)

\* A first component equal to the root's name stands for the root.
devfs_node_find(ns, path) ==
    IF ns = <<>> THEN 0
    ELSE FoldLeft(LAMBDA k, name : Step(ns, k, name), 1,
                  IF path[1] = ns[1].name THEN Tail(path) ELSE path)

-----------------------------------------------------------------------------
(* Adding and removing, on a record of the table and the next id           *)

\* Fault: a second node of the same name is let in.
add_Twice(t, path, dir) ==
    LET up == devfs_node_find(t.nodes, Front(path))
        k  == Len(t.nodes) + 1
    IN  IF k > DEVFS_MAX_NODES \/ up = 0 THEN t
        ELSE IF ~t.nodes[up].dir \/ Len(t.nodes[up].children) = DEVFS_MAX_CHILDREN THEN t
        ELSE [nodes |-> Append([t.nodes EXCEPT ![up].children = Append(@, k)],
                               [name |-> Last(path), dir |-> dir, parent |-> up,
                                children |-> <<>>, id |-> t.id]),
              id |-> t.id + 1]

\* The parent's children are counted after the slot and the id were taken;
\* only the slot is given back.
devfs_node_add(t, path, dir) ==
    LET up == devfs_node_find(t.nodes, Front(path))
        k  == Len(t.nodes) + 1
    IN  IF k > DEVFS_MAX_NODES \/ up = 0 THEN t
        ELSE IF ~t.nodes[up].dir \/ find_child(t.nodes, up, Last(path)) # 0 THEN t
        ELSE IF Len(t.nodes[up].children) = DEVFS_MAX_CHILDREN
          THEN [t EXCEPT !.id = @ + 1]
        ELSE [nodes |-> Append([t.nodes EXCEPT ![up].children = Append(@, k)],
                               [name |-> Last(path), dir |-> dir, parent |-> up,
                                children |-> <<>>, id |-> t.id]),
              id |-> t.id + 1]

\* The node's slot stays taken, and its own children stay linked to it.
devfs_node_remove(path) ==
    LET k == devfs_node_find(nodes, path)
    IN  /\ boot = "scanned" /\ k > 1
        /\ nodes' = [nodes EXCEPT ![nodes[k].parent].children = Remove(@, k)]
        /\ UNCHANGED <<next_id, boot, usb_dir_made, hids>>

devfs_init == [nodes |-> <<Root>>, id |-> 2]
Table == [nodes |-> nodes, id |-> next_id]
Becomes(t) == nodes' = t.nodes /\ next_id' = t.id

-----------------------------------------------------------------------------
(* Who fills the tree                                                      *)

HidName == <<"ukbd0", "ukbd1", "umouse0", "uhid0">>
UsbDir  == <<"dev", "usb">>
HidPath(n) == Append(UsbDir, HidName[n])

usbhid_add_node ==
    /\ hids < MaxHids
    /\ LET t == IF usb_dir_made THEN Table ELSE devfs_node_add(Table, UsbDir, TRUE)
       IN  Becomes(devfs_node_add(t, HidPath(hids + 1), FALSE))
    /\ usb_dir_made' = TRUE /\ hids' = hids + 1
    /\ UNCHANGED boot

io_storage_init ==
    /\ boot = "start" /\ boot' = "storage"
    /\ Becomes(devfs_init)
    /\ UNCHANGED <<usb_dir_made, hids>>

\* The directories and one device of each kind stand for the static tree.
hw_report_scan ==
    /\ boot = "storage" /\ boot' = "scanned"
    /\ Becomes(devfs_node_add(devfs_node_add(devfs_init, <<"dev", "input">>, TRUE),
                              <<"dev", "input", "kbd0">>, FALSE))
    /\ UNCHANGED <<usb_dir_made, hids>>

\* Another driver registers a device, perhaps one that is there already.
devfs_add_device(path) ==
    /\ boot = "scanned"
    /\ Becomes(devfs_node_add(Table, path, FALSE))
    /\ UNCHANGED <<boot, usb_dir_made, hids>>

Others == {<<"dev", "input", "kbd0">>, <<"dev", "input", "mouse0">>, <<"dev", "input">>,
           <<"dev", "input", "kbd0", "led">>}

DevicesNext ==
    \/ usbhid_add_node \/ io_storage_init \/ hw_report_scan
    \/ \E path \in Others : devfs_add_device(path) \/ devfs_node_remove(path)

DevicesSpec == DevicesInit /\ [][DevicesNext]_deviceVars

-----------------------------------------------------------------------------
Linked(k) == \E j \in DOMAIN nodes[nodes[k].parent].children :
                nodes[nodes[k].parent].children[j] = k

\* The nodes that a walk from the root can meet, with the paths they have.
Placed == {<<k, <<"dev", nodes[k].name>>>> :
              k \in {j \in 2..Len(nodes) : nodes[j].parent = 1 /\ Linked(j)}}
Nested == {<<k, <<"dev", nodes[nodes[k].parent].name, nodes[k].name>>>> :
              k \in {j \in 2..Len(nodes) : /\ Linked(j) /\ nodes[j].parent # 1
                                           /\ Linked(nodes[j].parent)}}

\* Whatever was added and removed before, also under a directory that has been
\* removed and made again: every node in the tree is the one its path finds,
\* and its id is no other node's.
EveryNodeFound ==
    /\ \A n \in Placed \cup Nested : devfs_node_find(nodes, n[2]) = n[1]
    /\ \A j, k \in DOMAIN nodes : nodes[j].id = nodes[k].id => j = k

Full == Len(nodes) = DEVFS_MAX_NODES \/ \E k \in DOMAIN nodes :
            Len(nodes[k].children) = DEVFS_MAX_CHILDREN

Present(n) == devfs_node_find(nodes, HidPath(n)) # 0

\* "we keep HID nodes in their own directory that we create on demand": once
\* the boot is done each HID interface has its node, unless a table is full.
HidsPresent == (boot = "scanned" /\ ~Full) => \A n \in 1..hids : Present(n)
=============================================================================
