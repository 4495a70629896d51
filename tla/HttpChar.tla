------------------------------ MODULE HttpChar ------------------------------
(***************************************************************************)
(* The characters of a request, as far as request_parser tells them apart: *)
(* the bytes it compares with by value, and one member for each remaining  *)
(* class of bytes. "token" stands for any other character of a name,       *)
(* "other" for any other separator, "ctl" for any other control character, *)
(* "high" for the bytes 128 .. 255, which are negative as char.            *)
(***************************************************************************)

Char == {"CR", "LF", "SP", "HT", ":", "/", ".", "H", "T", "P", "digit",
         "token", "other", "ctl", "high"}

IsChar == Char \ {"high"}
IsCtl == {"CR", "LF", "HT", "ctl"}
IsTspecial == {":", "/", "SP", "HT", "other"}
IsDigit == {"digit"}

\* What methods and header names are made of.
Token == IsChar \ (IsCtl \cup IsTspecial)

=============================================================================
