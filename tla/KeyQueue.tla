------------------------------ MODULE KeyQueue ------------------------------
(***************************************************************************)
(* What the keyboard interface promises about the bytes of the keys: they  *)
(* come out in the order they were put in, each once, and only a full      *)
(* queue refuses one.  The replies to the commands of the machine come out *)
(* between them, without passing through the queue.                        *)
(***************************************************************************)
EXTENDS Naturals, Sequences

CONSTANTS
    Byte,    \* what the keys send
    Reply,   \* what the keyboard answers
    LIMIT    \* the bytes the queue holds

VARIABLES
    queue,   \* the bytes put in and not taken out
    out      \* the byte taken out last

vars == <<queue, out>>

Put ==
    /\ Len(queue) < LIMIT
    /\ \E b \in Byte : queue' = Append(queue, b)
    /\ UNCHANGED out

Take ==
    /\ queue # << >>
    /\ out' = Head(queue)
    /\ queue' = Tail(queue)

Answer == out' \in Reply /\ UNCHANGED queue

\* The keyboard is reset and reports the keys that are held
Restart ==
    /\ \E n \in 0 .. LIMIT : queue' \in [1 .. n -> Byte]
    /\ \A i, j \in DOMAIN queue' : queue'[i] = queue'[j] => i = j
    /\ UNCHANGED out

Next == Put \/ Take \/ Answer \/ Restart

Spec == queue = << >> /\ [][Next]_vars
=============================================================================
