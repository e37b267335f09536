------------------------- MODULE MCSessionRegistry -------------------------
(* Small instances of SessionRegistry for TLC. *)
EXTENDS SessionRegistry, TLC

\* A TCP-only client, and one whose Hello carries an unspecified entry.
SmallHellos == {{"TCP"}, {"TCP", "UDP", "UNSPECIFIED"}}

\* One Hello that differs from what a session has before it: enough to tell
\* whose Hello the registry shows.
RichHello == {{"TCP", "UDP", "UNSPECIFIED"}}
=============================================================================
