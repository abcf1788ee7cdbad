----------------------------- MODULE MCPipeline -----------------------------
(* Six texts of 3 to 8 bytes, element sizes up to 3 and buffers of at most  *)
(* 8 bytes.  A text of 4, 5 or 6 bytes always fits, though streams may be   *)
(* longer than it; 3 and 7 may be cut by the writer's buffer and 8, padded  *)
(* to 9, is more than the reader's holds.                                   *)
EXTENDS Pipeline

MCTexts == {"t3", "t4", "t5", "t6", "t7", "t8"}

MCSize == [t \in MCTexts |->
  CASE t = "t3" -> 3 [] t = "t4" -> 4 [] t = "t5" -> 5
    [] t = "t6" -> 6 [] t = "t7" -> 7 [] OTHER -> 8]

MCLongest(n) == n + 2
=============================================================================
