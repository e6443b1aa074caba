------------------------------ MODULE MCLkDump ------------------------------
(* A 72-byte address space with pages of 8 bytes: an SRAM window, a DRAM    *)
(* window, and a log region that starts in the middle of a page.  Page 4    *)
(* stands for the ramoops page, which LK's table leaves unmapped; page 7 is *)
(* mapped and protected.                                                    *)
EXTENDS LkDump

MCAllowed == {<<8, 16>>, <<24, 64>>}
MCReach == [p \in Page |-> CASE p = 4 -> "l3hole"
                             [] p = 5 -> "block"
                             [] p = 6 -> "hole"
                             [] OTHER -> "l3page"]
MCProtected == {7}
MCOffsets == {0, 3, 12}
MCAddrs == {14, 23, 30, 38, 46, 62, 71}
MCLens == {0, 2, 5}
=============================================================================
