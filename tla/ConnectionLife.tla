--------------------------- MODULE ConnectionLife ---------------------------
(***************************************************************************)
(* What the life of a connection is, whatever its bytes and its thread: it *)
(* waits for a client, reads, is busy with what it has read, writes one    *)
(* reply and is gone. Nothing happens twice except reading, there is no    *)
(* way back from a reply, and a connection that is gone is never used      *)
(* again. Modules Server and Connection both implement it.                 *)
(***************************************************************************)
CONSTANT Conn
VARIABLE phase

\* The phases that may follow each phase.
Follow ==
  [new   |-> {"read"},
   read  |-> {"busy", "write", "gone"},
   busy  |-> {"read", "write"},
   write |-> {"gone"},
   gone  |-> {}]

LifeInit == phase \in [Conn -> {"new", "read"}]

LifeNext == \A c \in Conn : phase'[c] = phase[c] \/ phase'[c] \in Follow[phase[c]]

LifeSpec == LifeInit /\ [][LifeNext]_phase
=============================================================================
