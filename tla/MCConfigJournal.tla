--------------------------- MODULE MCConfigJournal ---------------------------
(* Configurations for TLC: a and b survive encode() and decode() as they    *)
(* are, raw comes back as a, bad is written but not decoded again, and      *)
(* refused is not written.                                                  *)
EXTENDS ConfigJournal

CONSTANTS a, b, raw, bad, refused

MCConfigs == {a, b, raw, bad, refused}
MCEncodable == MCConfigs \ {refused}
MCDecoded == [c \in MCConfigs |-> CASE c = raw -> a [] c \in {bad, refused} -> None [] OTHER -> c]
=============================================================================
