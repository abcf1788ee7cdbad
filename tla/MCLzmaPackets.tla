--------------------------- MODULE MCLzmaPackets ---------------------------
(* Every text of up to ten bytes of two values, and of eight of three; for  *)
(* each distance from 5 to 24 a text that repeats at it, so that every kind *)
(* of slot is used; and a text whose matches use four distances and then    *)
(* one of each again.                                                       *)
EXTENDS LzmaPackets

MCPower    == [n \in 0 .. DistBits |-> 2 ^ n]
Cycle(d)   == [i \in 1 .. d + 2 |-> i % d]
Far        == <<1, 2, 3, 4, 5, 6, 7, 8, 3, 4, 7, 8, 5, 6, 1, 2, 7, 8, 7, 8>>
MCTexts    == UNION {[1 .. n -> {0, 1}] : n \in 1 .. 10} \cup [1 .. 8 -> 0 .. 2]
                \cup {Cycle(d) : d \in 5 .. 24} \cup {Far}
=============================================================================
