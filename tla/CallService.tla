---------------------------- MODULE CallService ----------------------------
(***************************************************************************)
(* What the DCOP server promises the clients that call each other: a call  *)
(* stays pending until the called client answers it or is gone, and then   *)
(* the caller is told; nothing else ends it but the caller's own leaving.  *)
(* DCOPServer implements this specification.                               *)
(***************************************************************************)
EXTENDS Naturals

CONSTANT Conn

VARIABLES
  connected,  \* clients with a connection to the service
  alive,      \* those whose process is there
  pending,    \* pending[a][b]: calls of a to b that a has no answer for
  stopped     \* the service has ended

vars == <<connected, alive, pending, stopped>>

NothingPending == [x \in Conn |-> 0]

Init ==
  /\ connected = {} /\ alive = {}
  /\ pending = [a \in Conn |-> NothingPending]
  /\ stopped = FALSE

Connect(c) ==
  /\ c \notin connected
  /\ connected' = connected \cup {c} /\ alive' = alive \cup {c}
  /\ UNCHANGED <<pending, stopped>>

Call(a, b) ==
  /\ a \in alive /\ b \in connected
  /\ pending' = [pending EXCEPT ![a][b] = @ + 1]
  /\ UNCHANGED <<connected, alive, stopped>>

Answer(a, b) ==
  /\ b \in alive /\ pending[a][b] > 0
  /\ pending' = [pending EXCEPT ![a][b] = @ - 1]
  /\ UNCHANGED <<connected, alive, stopped>>

Die(c) ==
  /\ c \in alive /\ alive' = alive \ {c}
  /\ UNCHANGED <<connected, pending, stopped>>

\* The service notices that c is gone: all calls to c have failed.
Gone(c) ==
  /\ ~stopped /\ c \in connected \ alive
  /\ connected' = connected \ {c}
  /\ pending' = [a \in Conn |-> IF a = c THEN NothingPending
                                ELSE [pending[a] EXCEPT ![c] = 0]]
  /\ UNCHANGED <<alive, stopped>>

Stop == stopped' = TRUE /\ UNCHANGED <<connected, alive, pending>>

Next ==
  \/ \E c \in Conn : Connect(c) \/ Die(c) \/ Gone(c)
  \/ \E a, b \in Conn : Call(a, b) \/ Answer(a, b)
  \/ Stop

Fairness == \A c \in Conn : WF_vars(Gone(c))

Spec == Init /\ [][Next]_vars /\ Fairness
=============================================================================
