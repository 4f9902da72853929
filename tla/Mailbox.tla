------------------------------- MODULE Mailbox -------------------------------
(***************************************************************************)
(* What a program may rely on when it uses a queue and its dead letter     *)
(* queue, whatever becomes of single requests.  A copy of a message is     *)
(* named by its stream and its sequence in it.  The program asks; whatever *)
(* happens to the copies because of the program is covered by a request of *)
(* its own that is still under way.  The promises are:                     *)
(*   - a name is given to one copy only, ever;                             *)
(*   - only a send stores messages, its own and all of them; one that      *)
(*     returns has stored them, one that fails may have, even twice;       *)
(*   - a copy goes away only while the program acknowledges it, having     *)
(*     been handed it, or purges its stream, or receives from it with      *)
(*     delete=True, or when the service moves it to the dead letter queue; *)
(*   - a copy is handed out only while the program receives from its       *)
(*     stream.                                                             *)
(* MqDelivery is the detailed specification that implements this one.      *)
(***************************************************************************)
EXTENDS Naturals, Sequences

CONSTANTS
  Streams,
  DeadLetters, \* pairs <<q, p>>: p is the dead letter queue of q
  Messages,
  Sends        \* what a send may store: sequences of messages

VARIABLES
  stored,      \* the copies in the streams: [q, seq, msg]
  last,        \* last[q]: the last sequence given out in stream q
  given,       \* the copies handed to the program so far
  promised,    \* the messages whose send has returned
  pending      \* the requests of the program that may still be executed

vars == <<stored, last, given, promised, pending>>

Copies == [q : Streams, seq : Nat, msg : Messages]

Request(op, q, seq, send) == [op |-> op, q |-> q, seq |-> seq, send |-> send]

Init ==
  /\ stored \subseteq Copies
  /\ \A c, d \in stored : c.q = d.q /\ c.seq = d.seq => c = d
  /\ last \in [Streams -> Nat]
  /\ \A c \in stored : c.seq <= last[c.q]
  /\ given = {} /\ promised = {} /\ pending = {}

(* What the program may ask for; it acknowledges what it was handed.       *)
Requests ==
  {Request("send", q, 0, send) : q \in Streams, send \in Sends}
    \cup {Request(op, q, 0, <<>>) : op \in {"receive", "take", "purge"}, q \in Streams}
    \cup {Request("ack", c.q, c.seq, <<>>) : c \in given}

Ask(r) ==
  /\ UNCHANGED <<last, given, stored, promised>>
  /\ pending' = pending \cup {r}

(* Every step may be the last of some requests.                            *)
Ends == pending' \subseteq pending

Over == UNCHANGED <<last, given, stored, promised>> /\ Ends

(* The next sequences of its stream go to the messages of a send.          *)
Store(q, send) ==
  /\ last' = [last EXCEPT ![q] = @ + Len(send)]
  /\ UNCHANGED given
  /\ Request("send", q, 0, send) \in pending /\ Ends
  /\ stored' = stored \cup
       {[q |-> q, seq |-> last[q] + k, msg |-> send[k]] : k \in 1..Len(send)}
  /\ promised' \in {promised, promised \cup {send[k] : k \in 1..Len(send)}}

Hand(c) ==
  /\ given' = given \cup {c}
  /\ Request("receive", c.q, 0, <<>>) \in pending /\ Ends
  /\ UNCHANGED <<last, stored, promised>>

(* A receive with delete=True: the answer may be lost.                     *)
Take(c) ==
  /\ given' \in {given, given \cup {c}}
  /\ Request("take", c.q, 0, <<>>) \in pending /\ Ends
  /\ stored' = stored \ {c}
  /\ UNCHANGED <<last, promised>>

Acknowledge(c) ==
  /\ c \in given
  /\ Request("ack", c.q, c.seq, <<>>) \in pending /\ Ends
  /\ stored' = stored \ {c}
  /\ UNCHANGED <<last, given, promised>>

Purge(q) ==
  /\ UNCHANGED <<last, given>>
  /\ Request("purge", q, 0, <<>>) \in pending /\ Ends
  /\ stored' = {c \in stored : c.q # q}
  /\ UNCHANGED promised

(* The service gives up on a copy and stores the message elsewhere.        *)
Redirect(c, q) ==
  /\ <<c.q, q>> \in DeadLetters
  /\ last' = [last EXCEPT ![q] = @ + 1]
  /\ UNCHANGED <<given, promised, pending>>
  /\ stored' = (stored \ {c}) \cup {[q |-> q, seq |-> last[q] + 1, msg |-> c.msg]}

Next ==
  \/ Over
  \/ \E r \in Requests : Ask(r)
  \/ \E q \in Streams, send \in Sends : Store(q, send)
  \/ \E q \in Streams : Purge(q)
  \/ \E c \in stored :
       \/ Hand(c)
       \/ Acknowledge(c)
       \/ Take(c)
       \/ \E q \in Streams : Redirect(c, q)

Spec == Init /\ [][Next]_vars

=============================================================================
