---------------------------- MODULE MCIdeDriver ----------------------------
(***************************************************************************)
(* IdeDriver for TLC: four sectors of two words on two cache lines, sector *)
(* numbers of two binary digits, a write-back every second tick.           *)
(***************************************************************************)
EXTENDS IdeDriver

(* Every word of the image names its place; one word is new.               *)
MCImage   == [s \in Sectors |-> [w \in Words |-> <<s, w>>]]
MCNew     == <<9, 9>>
MCData    == (Sectors \X Words) \union {MCNew, <<8, 8>>}
MCZero    == <<8, 8>>
MCWrites  == {MCNew}
MCPair    == {0, 2}

(* For what does not depend on the data: every word is the same.           *)
MCBlankImage == [s \in Sectors |-> [w \in Words |-> MCZero]]
MCBlank      == {MCZero}
=============================================================================
