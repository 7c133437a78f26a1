--------------------------- MODULE RequestService ---------------------------
(***************************************************************************)
(* What DCOP promises about each request, a call or a send, however the    *)
(* clients' calls and handlers are nested: it comes to the client that it  *)
(* was sent to, which handles it once, and when that is over a call is     *)
(* answered once, to the client that made it.  (That answer may be the     *)
(* promise of a later one.)  When a client dies, the calls that it has not *)
(* answered are answered in its stead.  DCOPClient implements this         *)
(* specification.                                                          *)
(***************************************************************************)
EXTENDS Naturals, Sequences

CONSTANT Client

VARIABLES
  asked,     \* the requests made so far, in their order
  sent,      \* sent[c]: numbers of the requests that c is to handle
  handled,   \* handled[c]: of those that it is handling
  answered,  \* answered[c]: of the requests of c whose answer it has yet to read
  dead

vars == <<asked, sent, handled, answered, dead>>

Request == [from : Client, to : Client, answer : BOOLEAN]
Nothing == [c \in Client |-> {}]

Init ==
  /\ asked = << >> /\ sent = Nothing /\ handled = Nothing /\ answered = Nothing
  /\ dead = {}

\* F with the numbers in S for c, if it lives.
Given(F, c, S) == IF c \in dead THEN F ELSE [F EXCEPT ![c] = @ \union S]

Ask(r) ==
  /\ asked' = Append(asked, r)
  /\ sent' = Given(sent, r.to, {Len(asked) + 1})
  /\ answered' = IF r.to \in dead /\ r.answer
       THEN Given(answered, r.from, {Len(asked) + 1}) ELSE answered
  /\ UNCHANGED <<handled, dead>>

Begin(c, n) ==
  /\ n \in sent[c]
  /\ sent' = [sent EXCEPT ![c] = @ \ {n}]
  /\ handled' = [handled EXCEPT ![c] = @ \union {n}]
  /\ UNCHANGED <<asked, answered, dead>>

Return(c, n) ==
  /\ n \in handled[c]
  /\ handled' = [handled EXCEPT ![c] = @ \ {n}]
  /\ answered' = IF asked[n].answer THEN Given(answered, asked[n].from, {n}) ELSE answered
  /\ UNCHANGED <<asked, sent, dead>>

Learn(c, n) ==
  /\ n \in answered[c]
  /\ answered' = [answered EXCEPT ![c] = @ \ {n}]
  /\ UNCHANGED <<asked, sent, handled, dead>>

\* The calls of e that c leaves unanswered.
Left(c, e) == {n \in sent[c] \union handled[c] : asked[n].answer /\ asked[n].from = e}

Die(c) ==
  /\ dead' = dead \union {c}
  /\ sent' = [sent EXCEPT ![c] = {}] /\ handled' = [handled EXCEPT ![c] = {}]
  /\ answered' = [e \in Client |-> IF e \in dead' THEN {} ELSE answered[e] \union Left(c, e)]
  /\ UNCHANGED asked

Next ==
  \/ \E r \in Request : Ask(r)
  \/ \E c \in Client : \/ \E n \in sent[c] : Begin(c, n)
                       \/ \E n \in handled[c] : Return(c, n)
                       \/ \E n \in answered[c] : Learn(c, n)
                       \/ Die(c)

Spec == Init /\ [][Next]_vars
=============================================================================
