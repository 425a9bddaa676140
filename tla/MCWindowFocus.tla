---------------------------- MODULE MCWindowFocus ----------------------------
(***************************************************************************)
(* Two apps: a's window, its override-redirect child d, the window b that  *)
(* a second app may attach to a's as a dialog, and Steam's overlay o.      *)
(***************************************************************************)
EXTENDS WindowFocus

CONSTANTS a, b, d, o

MCWindows == {a, b, d, o}
MCApp == [w \in MCWindows |-> CASE w = o -> 0 [] w = b -> 2 [] OTHER -> 1]
MCOwner == [w \in MCWindows |-> IF w \in {b, d} THEN a ELSE None]
MCStarts == {<<o, d, a>>, <<o, b, d, a>>}
MCControls == {<<1>>, <<2, 1>>}
=============================================================================
