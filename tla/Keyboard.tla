------------------------------ MODULE Keyboard ------------------------------
(***************************************************************************)
(* The keyboard: the state of the keys (keystat.c), the interface that     *)
(* sends their bytes to the guest (serial.c) and the guest's driver        *)
(* (bios0x09 and the ROM's handler of interrupt 9).                        *)
(*                                                                         *)
(* The host reports keys going down and up; keystat turns them into bytes  *)
(* (a key, down or up) which keyboard_send puts into the ring "buf".  The  *)
(* event NEVENT_KEYBOARD takes them out one at a time and requests the     *)
(* interrupt; the guest reads the byte at port 41h.  The guest may send    *)
(* commands, whose replies overtake the bytes of the keys, and may reset   *)
(* the keyboard, which then reports the keys that are held.                *)
(*                                                                         *)
(* With THREADED the host's part runs in the window thread and the rest in *)
(* the emulation thread, as in the Windows build, and what both write is   *)
(* written step by step; without, the host's part runs between two frames. *)
(* The two places the emulation thread itself puts bytes in (the reset,    *)
(* the replies) are single steps.  Left out: the keys that lock and their  *)
(* LEDs, the transmit-enable bit of port 43h and the overrun bit, which    *)
(* the program only sets and clears; that setting it writes the whole      *)
(* status back is kept.                                                    *)
(***************************************************************************)
EXTENDS Naturals, SequencesExt, FiniteSets

CONSTANTS
    KEY,       \* the codes of the keys
    SHIFT,     \* those from 70h on: they do not repeat, and have one owner
    NONREP,    \* other keys that do not repeat (KBEX_NONREP)
    OWNER,     \* what can hold a key: a key of the host, a user key
    NC,        \* NKEYREF_NC: nothing does
    NoByte,    \* not a byte
    BUF,       \* KB_BUF
    CTR,       \* KB_CTR
    COMMANDS,  \* the commands the guest sends
    RESETS,    \* the guest resets the keyboard
    THREADED   \* the host's part is a thread of its own

Make(k) == [key |-> k, up |-> FALSE]
Break(k) == [key |-> k, up |-> TRUE]
Byte == [key : KEY, up : BOOLEAN]
Reply == [reply : {"ack", "nak", "led", "type"}]
IsReply(b) == b \in Reply

\* The replies to one command, three at most, fit.
ASSUME KeyboardAssumption ==
    /\ IsFiniteSet(KEY) /\ SHIFT \subseteq KEY /\ NONREP \subseteq KEY
    /\ NC \notin OWNER
    /\ NoByte \notin Byte \cup Reply
    /\ BUF \in Nat \ {0} /\ Cardinality(KEY) =< BUF
    /\ CTR \in Nat /\ CTR >= 3
    /\ COMMANDS \subseteq {"repeat", "led", "type", "unknown"}
    /\ RESETS \in BOOLEAN /\ THREADED \in BOOLEAN

VARIABLES
    ref, keyrep,             \* keystat.ref; keyctrl.keyrep is not "stop"
    todo, put, copy,         \* bytes the host's part is still to send, where it is
    buf, bufpos, buffers,    \* the ring of bytes
    ctr,                     \* the replies, the next first
    full, data,              \* bit 1 of the status: a byte not read; the byte
    armed, called,           \* the event; its callback is to come
    take, taken,             \* where that callback is
    irq, servicing,          \* line 1 of the controller; the handler was entered
    reqparam, mode,          \* a command waits for its parameter
    down, awaited,           \* the guest's table of keys; replies it waits for
    lost, stale              \* history: keys whose last byte was refused; the
                             \* interrupt pending is for a byte dropped by a reset

host == <<ref, todo, put, copy>>
ring == <<buf, bufpos, buffers>>
event == <<armed, called>>
callback == <<take, taken>>
line == <<irq, servicing>>
command == <<keyrep, reqparam, mode>>
guest == <<down, awaited, lost, stale>>
vars == <<host, ring, ctr, full, data, event, callback, line, command, guest>>

Held == {k \in KEY : ref[k] # NC}

Init ==
    /\ ref = [k \in KEY |-> NC] /\ keyrep = TRUE
    /\ todo = << >> /\ put = "idle" /\ copy = 0
    /\ buf = [i \in 0 .. BUF - 1 |-> NoByte] /\ bufpos = 0 /\ buffers = 0
    /\ ctr = << >>
    /\ full = FALSE /\ data = NoByte
    /\ armed = FALSE /\ called = FALSE
    /\ take = "idle" /\ taken = 0
    /\ irq = FALSE /\ servicing = FALSE
    /\ reqparam = FALSE /\ mode = "unknown"
    /\ down = {} /\ awaited = << >> /\ lost = {} /\ stale = FALSE

-----------------------------------------------------------------------------
(***************************************************************************)
(* The host's part                                                         *)
(***************************************************************************)

HostIdle == todo = << >> /\ put = "idle"

\* Without a thread of its own the host's part runs between two frames
HostTurn == HostIdle /\ (THREADED \/ ~ called)

Repeats(k) == keyrep /\ k \notin NONREP

\* What a key sends when it goes down: one that is held already goes up first
DownBytes(k) ==
    IF k \in Held
    THEN IF k \notin SHIFT /\ Repeats(k) THEN <<Break(k), Make(k)>> ELSE << >>
    ELSE <<Make(k)>>

\* keystat_down
KeyDown(k, owner) ==
    /\ HostTurn
    /\ todo' = DownBytes(k)
    /\ ref' = [ref EXCEPT ![k] = IF k \in SHIFT \cap Held THEN @ ELSE owner]
    /\ UNCHANGED <<put, copy, ring, ctr, full, data, event, callback, line, command, guest>>

\* keystat_up: a key is released by what holds it, a shift by anything
KeyUp(k, owner) ==
    /\ HostTurn
    /\ IF k \in SHIFT THEN k \in Held ELSE ref[k] = owner
    /\ todo' = <<Break(k)>>
    /\ ref' = [ref EXCEPT ![k] = NC]
    /\ UNCHANGED <<put, copy, ring, ctr, full, data, event, callback, line, command, guest>>

\* keystat_allrelease: the window is activated
AllRelease ==
    /\ HostTurn
    /\ Held # {}
    /\ todo' = [i \in 1 .. Cardinality(Held) |-> Break(SetToSeq(Held)[i])]
    /\ ref' = [k \in KEY |-> NC]
    /\ UNCHANGED <<put, copy, ring, ctr, full, data, event, callback, line, command, guest>>

Place(i) == (bufpos + i) % BUF

\* Faulty variant: one byte too many is put in.
HasRoomFull == buffers =< BUF

HasRoom == buffers < BUF

\* keyboard_send: the byte is stored, or refused when the ring is full ...
SendStore ==
    /\ todo # << >> /\ put = "idle"
    /\ IF HasRoom
       THEN /\ buf' = [buf EXCEPT ![Place(buffers)] = Head(todo)]
            /\ put' = "stored"
            /\ lost' = IF stale THEN lost ELSE lost \ {Head(todo).key}
            /\ UNCHANGED copy
       ELSE /\ put' = "refused"
            /\ copy' = IF full THEN 1 ELSE 0
            /\ lost' = lost \cup {Head(todo).key}
            /\ UNCHANGED buf
    /\ UNCHANGED <<ref, todo, bufpos, buffers, ctr, full, data, event, callback, line,
                   command, down, awaited, stale>>

\* ... which sets a bit of the status, reading and writing the bit "full" with it
SendRefused ==
    /\ put = "refused"
    /\ full' = (copy = 1)
    /\ copy' = 0
    /\ todo' = Tail(todo)
    /\ put' = "idle"
    /\ UNCHANGED <<ref, ring, ctr, data, event, callback, line, command, guest>>

\* ... buffers++, a read and a write ...
SendLoad ==
    /\ put = "stored"
    /\ copy' = buffers
    /\ put' = "loaded"
    /\ UNCHANGED <<ref, todo, ring, ctr, full, data, event, callback, line, command, guest>>

SendCount ==
    /\ put = "loaded"
    /\ buffers' = copy + 1
    /\ put' = "counted"
    /\ copy' = 0
    /\ UNCHANGED <<ref, todo, buf, bufpos, ctr, full, data, event, callback, line, command, guest>>

\* Faulty variant: the event is armed for the first byte of an empty ring only.
MustArmFirst == buffers = 1 /\ ~ full

MustArm == ~ armed

\* ... and the event is armed, if it is not.  The scheduler's critical section,
\* which nevent_iswork enters, is held from the moment events run out until
\* their callbacks have returned.
SendArm ==
    /\ put = "counted" /\ ~ called
    /\ armed' = (armed \/ MustArm)
    /\ todo' = Tail(todo)
    /\ put' = "idle"
    /\ UNCHANGED <<ref, copy, ring, ctr, full, data, called, callback, line, command, guest>>

-----------------------------------------------------------------------------
(***************************************************************************)
(* The event                                                               *)
(***************************************************************************)

EmulatorTurn == THREADED \/ HostIdle

\* The event runs out: it is no longer armed, its callback is to be called
Expire ==
    /\ EmulatorTurn
    /\ armed /\ ~ called
    /\ armed' = FALSE
    /\ called' = TRUE
    /\ UNCHANGED <<host, ring, ctr, full, data, callback, line, command, guest>>

\* The end of keyboard_callback: the interrupt is requested, and the event
\* armed again so that it is requested until the byte is read
RaiseAndArm ==
    /\ irq' = TRUE
    /\ armed' = TRUE
    /\ called' = FALSE
    /\ UNCHANGED servicing

MayTake == ~ full

\* keyboard_callback, up to the byte it takes from the ring.  Nobody arms the
\* event while its call is to come, so that the flag it tests is always set.
KeyboardCallback ==
    /\ EmulatorTurn
    /\ called /\ take = "idle"
    /\ IF ctr = << >> /\ buffers = 0
       THEN called' = FALSE /\ UNCHANGED <<armed, line, ctr, full, data, callback>>
       ELSE IF ~ MayTake
       THEN RaiseAndArm /\ UNCHANGED <<ctr, full, data, callback>>
       ELSE IF ctr # << >>
       THEN /\ full' = TRUE
            /\ data' = Head(ctr)
            /\ ctr' = Tail(ctr)
            /\ RaiseAndArm
            /\ UNCHANGED callback
       ELSE /\ full' = TRUE
            /\ take' = "loaded" /\ taken' = buffers
            /\ UNCHANGED <<ctr, data, line, event>>
    /\ UNCHANGED <<host, ring, command, guest>>

\* buffers--, the write of it ...
TakeCount ==
    /\ take = "loaded"
    /\ buffers' = taken - 1
    /\ take' = "counted" /\ taken' = 0
    /\ UNCHANGED <<host, buf, bufpos, ctr, full, data, event, line, command, guest>>

\* ... and the byte
TakeByte ==
    /\ take = "counted"
    /\ data' = buf[bufpos]
    /\ bufpos' = Place(1)
    /\ take' = "idle"
    /\ RaiseAndArm
    /\ UNCHANGED <<host, buf, buffers, ctr, full, taken, command, guest>>

-----------------------------------------------------------------------------
(***************************************************************************)
(* The guest, while the CPU runs                                           *)
(***************************************************************************)

GuestTurn == EmulatorTurn /\ ~ called

\* The interrupt is accepted
Acknowledge ==
    /\ GuestTurn
    /\ irq /\ ~ servicing
    /\ irq' = FALSE /\ servicing' = TRUE
    /\ UNCHANGED <<host, ring, ctr, full, data, event, callback, command, guest>>

\* bios0x09: the table of the keys that are down, after byte b
Noted(table, b) ==
    IF b = NoByte \/ IsReply(b) THEN table
    ELSE IF b.up THEN table \ {b.key} ELSE table \cup {b.key}

\* Faulty variant: a byte that is read still counts as not read.
AfterReadKept == full

\* The status bit once the byte is read
AfterRead == FALSE

\* The handler reads port 41h (keyboard_i41)
KeyboardI41 ==
    /\ GuestTurn
    /\ servicing
    /\ servicing' = FALSE
    /\ full' = AfterRead
    /\ irq' = FALSE
    /\ down' = Noted(down, data)
    /\ awaited' = IF full /\ awaited # << >> /\ data = Head(awaited) THEN Tail(awaited)
                  ELSE awaited
    /\ stale' = FALSE
    /\ UNCHANGED <<host, ring, ctr, data, event, callback, command, lost>>

\* Faulty variant: the keys that are held are not reported after a reset.
ResentNone == << >>

\* keystat_resendstat: the keys that are held
Resent == [i \in 1 .. Cardinality(Held) |-> Make(SetToSeq(Held)[i])]

\* Port 43h takes the reset bit back (keyboard_resetsignal) and the driver
\* clears its table (bios0x09_init).  A request that is pending stays: a byte
\* not read before will be read again.
KeyboardResetsignal ==
    /\ RESETS
    /\ GuestTurn
    /\ ctr' = << >>
    /\ full' = FALSE
    /\ reqparam' = FALSE
    /\ buf' = [i \in 0 .. BUF - 1 |->
                  IF \E j \in DOMAIN Resent : i = Place(j - 1)
                  THEN LET j == CHOOSE j \in DOMAIN Resent : i = Place(j - 1) IN Resent[j]
                  ELSE buf[i]]
    /\ buffers' = Len(Resent)
    /\ armed' = (Resent # << >>)
    /\ down' = {} /\ awaited' = << >>
    /\ stale' = (irq \/ servicing)
    /\ lost' = IF stale' THEN {k \in KEY : data \in Byte /\ k = data.key} ELSE {}
    /\ UNCHANGED <<host, bufpos, data, called, callback, line, keyrep, mode>>

\* Faulty variant: the first reply does not drop what is left of earlier ones.
LeftAll == ctr

\* What is left of earlier replies after the first of a new answer, an ack or a
\* nak, has come
Left == << >>

\* keyboard_ctrl, for each reply
Answered(replies) ==
    IF replies = << >>
    THEN UNCHANGED <<ctr, armed>>
    ELSE LET all == Left \o replies
         IN  /\ ctr' = SubSeq(all, 1, IF Len(all) < CTR THEN Len(all) ELSE CTR)
             /\ armed' = (armed \/ MustArm)

\* The reply in the data register
Unread == IF full /\ IsReply(data) THEN <<data>> ELSE << >>

\* The guest waits for a new answer; of earlier ones only what it has not read
\* yet can still come
Awaits(replies) == awaited' = IF replies = << >> THEN awaited ELSE Unread \o replies

Says(word) == [reply |-> word]

RepliesTo(c) ==
    CASE c \in {"repeat", "led"} -> <<Says("ack")>>
      [] c = "type" -> <<Says("ack"), Says("type"), Says("type")>>
      [] OTHER -> <<Says("nak")>>

\* keystat_ctrlsend, the command ...
SendCommand(c) ==
    /\ GuestTurn
    /\ ~ reqparam
    /\ mode' = c
    /\ reqparam' = (c \in {"repeat", "led"})
    /\ Answered(RepliesTo(c))
    /\ Awaits(RepliesTo(c))
    /\ UNCHANGED <<host, ring, full, data, called, callback, line, keyrep, down, lost, stale>>

\* The parameters: of "repeat", to repeat or not; of "led", to ask for the
\* LEDs, to set them, or one that is neither and gets no answer
Parameter == {"go", "stop", "ask", "set", "other"}

RepliesToParameter(p) ==
    CASE mode = "repeat" -> <<Says("ack")>>
      [] mode = "led" /\ p = "ask" -> <<Says("ack"), Says("led")>>
      [] mode = "led" /\ p = "set" -> <<Says("ack")>>
      [] OTHER -> << >>

\* ... and its parameter
SendParameter(p) ==
    /\ GuestTurn
    /\ reqparam
    /\ p \in IF mode = "repeat" THEN {"go", "stop"} ELSE {"ask", "set", "other"}
    /\ reqparam' = FALSE
    /\ keyrep' = IF mode = "repeat" THEN p = "go" ELSE keyrep
    /\ Answered(RepliesToParameter(p))
    /\ Awaits(RepliesToParameter(p))
    /\ UNCHANGED <<host, ring, full, data, called, callback, line, mode, down, lost, stale>>

-----------------------------------------------------------------------------

Host ==
    \/ \E k \in KEY, owner \in OWNER : KeyDown(k, owner) \/ KeyUp(k, owner)
    \/ AllRelease

Send == SendStore \/ SendRefused \/ SendLoad \/ SendCount \/ SendArm

Callback == KeyboardCallback \/ TakeCount \/ TakeByte

Guest ==
    \/ KeyboardResetsignal
    \/ \E c \in COMMANDS : SendCommand(c)
    \/ \E p \in Parameter : SendParameter(p)

Next == Host \/ Send \/ Expire \/ Callback \/ Acknowledge \/ KeyboardI41 \/ Guest

Spec == Init /\ [][Next]_vars

\* Both threads run; the guest takes its interrupts, whose handler reads the
\* byte.  Between two frames the host does not report keys for ever.
FairSpec ==
    /\ Spec
    /\ WF_vars(Send)
    /\ SF_vars(Expire) /\ WF_vars(Callback)
    /\ SF_vars(Acknowledge) /\ SF_vars(KeyboardI41)

-----------------------------------------------------------------------------
(***************************************************************************)
(* Properties                                                              *)
(***************************************************************************)

TypeOK ==
    /\ ref \in [KEY -> OWNER \cup {NC}] /\ keyrep \in BOOLEAN
    /\ todo \in Seq(Byte) /\ put \in {"idle", "stored", "loaded", "counted", "refused"}
    /\ copy \in 0 .. BUF
    /\ buf \in [0 .. BUF - 1 -> Byte \cup {NoByte}]
    /\ bufpos \in 0 .. BUF - 1 /\ buffers \in 0 .. BUF
    /\ ctr \in Seq(Reply) /\ Len(ctr) =< CTR
    /\ full \in BOOLEAN /\ data \in Byte \cup Reply \cup {NoByte}
    /\ armed \in BOOLEAN /\ called \in BOOLEAN
    /\ take \in {"idle", "loaded", "counted"} /\ taken \in 0 .. BUF
    /\ irq \in BOOLEAN /\ servicing \in BOOLEAN
    /\ reqparam \in BOOLEAN /\ mode \in {"repeat", "led", "type", "unknown"}
    /\ down \subseteq KEY /\ awaited \in Seq(Reply)
    /\ lost \subseteq KEY /\ stale \in BOOLEAN

\* The bytes in the ring, one that is being taken included
Pending == [i \in 1 .. buffers + IF take = "counted" THEN 1 ELSE 0 |-> buf[Place(i - 1)]]

\* The bytes on their way to the guest, the next it reads first
OnTheirWay ==
    (IF full /\ take = "idle" THEN <<data>> ELSE << >>)
    \o Pending
    \o (IF put \in {"counted", "refused"} THEN Tail(todo) ELSE todo)

\* The guest's table once it has read the bytes q: of a key the last one counts.
Told(table, q) ==
    {k \in KEY :
        LET said == {i \in DOMAIN q : q[i] \in Byte /\ q[i].key = k}
        IN  IF said = {} THEN k \in table
            ELSE \E last \in said : ~ q[last].up /\ \A i \in said : i =< last}

\* Once the guest has read what is on its way, no key stays down for it that
\* the user has released (keystat_up, keyboard_send, keyboard_callback) ...
ReleasedKeysAreUp == Told(down, OnTheirWay) \ Held \subseteq lost

\* ... and it knows of each key that is held, whatever goes down, is repeated,
\* owned by another key, released with the window or reset between.  A byte
\* that a full ring refused, or one that a reset dropped and the guest reads all
\* the same, leaves it wrong about that key, until another byte of the key.
HeldKeysAreKnown == ReleasedKeysAreUp /\ Held \ Told(down, OnTheirWay) \subseteq lost

\* A byte in the ring, or a reply, has the event armed that will take it out.
QueueIsServed == (buffers > 0 \/ ctr # << >>) /\ HostIdle => armed \/ called

\* A byte that was not read is announced: its interrupt is requested or served.
\* And an interrupt announces a byte, but for one that a reset dropped: none is
\* read twice.
ByteIsAnnounced ==
    /\ full /\ take = "idle" => irq \/ servicing
    /\ irq \/ servicing => full \/ stale

\* The replies on their way are those the guest waits for, in their order: the
\* whole answer to its last command, after the one reply of an earlier answer
\* that was in the register then.  None is lost in the queue of replies, left
\* from before, overwritten by a byte of a key or read twice.
RepliesAreWhole == awaited = (IF take = "idle" THEN Unread ELSE << >>) \o ctr

\* The interface is a queue (KeyQueue).
Queue == INSTANCE KeyQueue WITH queue <- Pending, out <- data, LIMIT <- BUF
ImplementsQueue == Queue!Spec

\* The guest does not send commands to the keyboard, or reset it, for ever.
GuestSettles == <>[][~ Guest]_vars

\* A key that is held gets to the guest, unless it is released before or its
\* last byte was refused.  Replies overtake the bytes of the keys, so a guest that never
\* stops sending commands could hold a key back for ever.
KeyReachesGuest ==
    GuestSettles => \A k \in KEY : k \in Held ~> k \in down \/ k \notin Held \/ k \in lost

\* The guest's wait for the answer to its last command ends.
CommandIsAnswered == GuestSettles => (awaited # << >> ~> awaited = << >>)
=============================================================================
