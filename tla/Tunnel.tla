------------------------------- MODULE Tunnel -------------------------------
(***************************************************************************)
(* What internal/tunnel/tunnel.go promises of every tunnel.  Connect       *)
(* "establishes the tunnel" or fails, once; only an established tunnel     *)
(* carries connections; Disconnect "tears down the tunnel", after which it *)
(* carries none and never will again.  Connections may end at any time.    *)
(***************************************************************************)
CONSTANT Conns

VARIABLES
  state,     \* "new", "up", "failed" or "down"
  carried    \* the connections that reach the other side through it

Init == state = "new" /\ carried = {}

Connect ==
  /\ state = "new"
  /\ state' \in {"up", "failed"}
  /\ UNCHANGED carried

Carry(c) ==
  /\ state = "up"
  /\ carried' = carried \cup {c}
  /\ UNCHANGED state

Drop ==
  /\ carried' \in SUBSET carried
  /\ UNCHANGED state

Disconnect ==
  /\ state = "up"
  /\ state' = "down"
  /\ carried' = {}

Next == Connect \/ (\E c \in Conns : Carry(c)) \/ Drop \/ Disconnect

Spec == Init /\ [][Next]_<<state, carried>>
=============================================================================
