---------------------------- MODULE SingleClient ----------------------------
(***************************************************************************)
(* What the LiteVPN server promises its clients: the tunnel has one owner. *)
(* A newly authenticated VPN client takes the tunnel over at once, the     *)
(* client it displaced is disconnected whether it wants it or not, and a   *)
(* session that has lost the tunnel never gets it back.                    *)
(***************************************************************************)
CONSTANTS Conns,      \* the sessions
          NoConn      \* nobody

VARIABLES served,     \* the session that owns the tunnel, or NoConn
          connected,  \* sessions attached to the tunnel by an open connection
          spent       \* sessions that have been admitted or turned away

vars == <<served, connected, spent>>

Init == served = NoConn /\ connected = {} /\ spent = {}

\* A session takes the tunnel from whoever has it.  Its own connection may
\* have been lost since it was authenticated.
Admit(c) ==
  /\ c \notin spent
  /\ served' = c
  /\ spent' = spent \cup {c}
  /\ connected' \in {connected, connected \cup {c}}

\* A session is turned away, or was a benchmark: it never owns the tunnel.
Refuse(c) ==
  /\ c \notin spent
  /\ spent' = spent \cup {c}
  /\ UNCHANGED <<served, connected>>

\* A connection ends: closed by its client, lost, or closed by the server.
Disconnect(c) ==
  /\ c \in connected
  /\ connected' = connected \ {c}
  /\ UNCHANGED <<served, spent>>

\* The owner gives the tunnel up, and its connection with it.
Release ==
  /\ served # NoConn
  /\ served' = NoConn
  /\ connected' = connected \ {served}
  /\ UNCHANGED spent

\* The server restarts: every connection is gone, unfinished ones included.
Restart ==
  /\ served' = NoConn
  /\ connected' = {}
  /\ spent \subseteq spent' /\ spent' \subseteq Conns

Next ==
  \/ \E c \in Conns : Admit(c) \/ Refuse(c) \/ Disconnect(c)
  \/ Release
  \/ Restart

\* A displaced session is disconnected, whatever its client does.
Fairness == \A c \in Conns : WF_vars(c # served /\ Disconnect(c))

Safety == Init /\ [][Next]_vars
Spec == Safety /\ Fairness
=============================================================================
