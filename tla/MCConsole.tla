----------------------------- MODULE MCConsole ------------------------------
(***************************************************************************)
(* Keys, screen and files for TLC.  A behaviour is one of a single part;   *)
(* the others rest in one state.                                           *)
(*                                                                         *)
(* keys: KbdRing.  A ring of three slots, so that two keys fill it and six *)
(* wrap it twice; the thread only reads keys.  polled: the same with a     *)
(* thread that polls the controller and pushes keys itself.                *)
(* text: FontConsole.  A screen of two rows and two columns of glyphs two  *)
(* pixels high, with one pixel row left over; the back buffer holds two    *)
(* screens, so the window is moved back again and again.                   *)
(* log: LvConsole.  A history of four characters, of which a newline and   *)
(* two others make lines; five are printed, the first four of them perhaps *)
(* by the interrupt, which evicts lines amid a print or a pump.            *)
(* devices: Devfs.  Seven nodes and three children each; four HID          *)
(* interfaces found before, between or after the two scans of the boot.    *)
(* files: Ext3Files.  Blocks of two bytes, two direct blocks and two       *)
(* indirect ones: a file with a hole and an indirect block, one in a       *)
(* directory, an unused entry of the name looked for; lengths and offsets  *)
(* below, across and past the ends of files and of u32; any one of the     *)
(* blocks unreadable; four page frames for the lookups.                    *)
(***************************************************************************)
EXTENDS KbdRing, FontConsole, LvConsole, Devfs, Ext3Files, TLC

VARIABLES part,
    watched,    \* the key whose delivery the behaviour is about
    p_buf, p_head, p_tail, p_pc, p_next, p_key, p_c, p_typed, p_delivered

Polled == INSTANCE KbdRing WITH
              MainPolls <- TRUE,
              g_kbd_buf <- p_buf, g_kbd_head <- p_head, g_kbd_tail <- p_tail,
              pc <- p_pc, next <- p_next, key <- p_key, c <- p_c,
              typed <- p_typed, delivered <- p_delivered

polledVars == <<p_buf, p_head, p_tail, p_pc, p_next, p_key, p_c, p_typed, p_delivered>>

Dir(block, entries) == [dir |-> TRUE, size |-> 2, i_block |-> <<block, 0, 0>>,
                        entries |-> entries]
File(size, blocks) == [dir |-> FALSE, size |-> size, i_block |-> blocks, entries |-> <<>>]
Names(ino, name) == [ino |-> ino, name |-> name]

MCInodes == 2 :> Dir(21, <<Names(0, "a"), Names(3, "a"), Names(4, "d")>>)
            @@ 3 :> File(7, <<31, 0, 32>>)
            @@ 4 :> Dir(41, <<Names(5, "b")>>)
            @@ 5 :> File(5, <<51, 52, 0>>)
MCIndirect == 32 :> <<33, 34>>
MCInodeBlock == 2 :> 11 @@ 3 :> 12 @@ 4 :> 11 @@ 5 :> 12
MCPaths == {<<"a">>, <<"d", "b">>, <<"d">>, <<"d", "a">>}
MCOffsets == {-3, 0, 5, 15}

-----------------------------------------------------------------------------
MCInit ==
    /\ part \in {"keys", "polled", "text", "log", "devices", "files"}
    /\ KeysInit /\ Polled!KeysInit /\ TextInit /\ LogInit /\ DevicesInit /\ FilesInit
    /\ part # "text" => ~fb.ready
    /\ watched \in IF part = "keys" THEN 1..MaxTyped ELSE {1}

MCNext ==
    \/ /\ part = "keys" /\ KeysNext
       /\ UNCHANGED <<part, watched, polledVars, textVars, logVars, deviceVars, fileVars>>
    \/ /\ part = "polled" /\ Polled!KeysNext
       /\ UNCHANGED <<part, watched, keyVars, textVars, logVars, deviceVars, fileVars>>
    \/ /\ part = "text" /\ TextNext
       /\ UNCHANGED <<part, watched, keyVars, polledVars, logVars, deviceVars, fileVars>>
    \/ /\ part = "log" /\ LogNext
       /\ UNCHANGED <<part, watched, keyVars, polledVars, textVars, deviceVars, fileVars>>
    \/ /\ part = "devices" /\ DevicesNext
       /\ UNCHANGED <<part, watched, keyVars, polledVars, textVars, logVars, fileVars>>
    \/ /\ part = "files" /\ FilesNext
       /\ UNCHANGED <<part, watched, keyVars, polledVars, textVars, logVars, deviceVars>>

MCSpec ==
    /\ MCInit
    /\ [][MCNext]_<<part, watched, keyVars, polledVars, textVars, logVars, deviceVars, fileVars>>
    /\ WF_keyVars(part = "keys" /\ Main)
    /\ WF_keyVars(part = "keys" /\ pit_tick)
    /\ WF_logVars(part = "log" /\ Elapse /\ idle')
    /\ WF_logVars(part = "log" /\ pit_handler_irq0)
    /\ WF_logVars(part = "log" /\ con_pc # "out"
                    /\ (Output \/ Pump \/ SettleLog \/ stop))

\* A key in the ring is delivered, although the interrupt that brought it may
\* fall between the test and the hlt: the next timer tick ends the hlt.  The
\* key is any of them: watched is chosen at the start and no step changes it.
KeysDelivered == InRing(watched) ~> Delivered(watched)

\* The order of the keys in the instance, and the liveness of the log in the
\* behaviours that are about it.
PolledInOrder == Polled!InOrder
LogTailShown == part = "log" => TailShown
=============================================================================
