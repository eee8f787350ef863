----------------------------- MODULE Interrupts -----------------------------
(***************************************************************************)
(* The interrupt controllers with a guest that serves their interrupts the *)
(* way the BIOS does (bios0x12, bios0x13): with interrupts disabled, a     *)
(* handler ends the interrupt on its own chip, and, when it was one of the *)
(* slave and the slave has nothing more in service, on the master; then it *)
(* returns.  Before that a handler may let others interrupt it.  The       *)
(* guest masks nothing and uses fixed priorities.                          *)
(*                                                                         *)
(* "handlers" holds the handlers that were entered and have not returned,  *)
(* the running one last.  Each device makes a bounded number of requests.  *)
(***************************************************************************)
EXTENDS Pic, Sequences

CONSTANT MAXREQUESTS   \* bound on the requests a device makes

ASSUME MAXREQUESTS \in Nat

VARIABLES
    handlers,   \* the handlers entered, [chip, line, at]
    requests    \* the requests each irq may still make

guest == <<handlers, requests>>

IRQ == INPUTS \cup {<<Master, TIMER>>}

GuestInit ==
    /\ Init
    /\ imr = [c \in Chip |-> {}]
    /\ handlers = << >>
    /\ requests = [irq \in IRQ |-> MAXREQUESTS]

Top == handlers[Len(handlers)]

\* The running handler goes on at another place of its code
GoTo(place) == handlers' = [handlers EXCEPT ![Len(handlers)].at = place]

\* Something is served: pic_irq enters its handler
Served ==
    /\ PicIrq
    /\ handlers' = IF \E c \in Chip, n \in Line : Accepts(c, n)
                   THEN LET irq == CHOOSE irq \in Chip \X Line : Accepts(irq[1], irq[2])
                        IN  Append(handlers, [chip |-> irq[1], line |-> irq[2], at |-> "work"])
                   ELSE handlers
    /\ handlers' # handlers => ei' = FALSE
    /\ UNCHANGED requests

\* The main program, or a handler at work, disables or enables interrupts
SetsFlag ==
    /\ handlers # << >> => Top.at = "work"
    /\ Cli \/ (SetFlag /\ ei')
    /\ ei' # ei
    /\ UNCHANGED guest

NonSpecificEoi == [eoi |-> TRUE, rotate |-> FALSE, specific |-> FALSE]

\* A handler with interrupts disabled ends its interrupt on its chip ...
EndOnChip ==
    /\ handlers # << >> /\ Top.at = "work" /\ ~ ei
    /\ OCW2(Top.chip, NonSpecificEoi, 0)
    /\ GoTo(IF Top.chip = Slave THEN "ended" ELSE "return")
    /\ UNCHANGED requests

\* Faulty variant: the slave's line of the master is ended each time.
MasterIsDoneAlways == TRUE

\* if (!pic.pi[1].isr)
MasterIsDone == isr[Slave] = {}

\* ... then the slave's on the master, if the slave has nothing in service
EndOnMaster ==
    /\ handlers # << >> /\ Top.at = "ended"
    /\ IF MasterIsDone
       THEN OCW2(Master, NonSpecificEoi, 0)
       ELSE Instruction /\ UNCHANGED vars
    /\ GoTo("return")
    /\ UNCHANGED requests

\* IRET restores the flag of the interrupted code, where it was set
Iret ==
    /\ handlers # << >> /\ Top.at = "return"
    /\ SetFlag /\ ei'
    /\ handlers' = SubSeq(handlers, 1, Len(handlers) - 1)
    /\ UNCHANGED requests

\* A device makes a request
Request(irq) ==
    /\ requests[irq] > 0
    /\ requests' = [requests EXCEPT ![irq] = @ - 1]
    /\ IF irq = <<Master, TIMER>> THEN SetTimer
       ELSE PicSetirq(irq[1], irq[2])
    /\ UNCHANGED handlers

Turn == (CpuEnd \/ EventsEnd) /\ UNCHANGED guest

GuestNext ==
    \/ Served \/ Turn
    \/ SetsFlag \/ EndOnChip \/ EndOnMaster \/ Iret
    \/ \E irq \in IRQ : Request(irq)

gvars == <<vars, guest>>

GuestSpec == GuestInit /\ [][GuestNext]_gvars

\* The CPU runs, its handlers end, and code does not keep interrupts disabled
\* for ever.
FairGuest ==
    /\ GuestSpec
    /\ WF_gvars(Served) /\ WF_gvars(Turn)
    /\ SF_gvars(EndOnChip) /\ SF_gvars(EndOnMaster) /\ SF_gvars(Iret)
    /\ SF_gvars(SetsFlag /\ ei') /\ SF_gvars(SetsFlag /\ ~ ei')

-----------------------------------------------------------------------------

\* The irqs whose handlers have not yet ended their interrupt
Working(c) == {handlers[i].line : i \in {j \in DOMAIN handlers : handlers[j].chip = c /\ handlers[j].at = "work"}}

\* The registers say what the guest is doing: a line is in service exactly
\* while its handler works, and the slave's line of the master while any
\* handler of the slave does.  So every EOI, which names no line, ends the
\* interrupt of the handler that issues it.
InServiceIsAtWork ==
    /\ isr[Slave] = Working(Slave)
    /\ isr[Master] \ {SLAVE} = Working(Master)
    /\ SLAVE \in isr[Master] <=>
          Working(Slave) # {} \/ \E i \in DOMAIN handlers : handlers[i].at = "ended"

\* Handlers nest at most once for each line of the two chips, so the guest's
\* stack is bounded whatever the devices do.
BoundedNesting ==
    \A i, j \in DOMAIN handlers :
        i < j /\ handlers[i].at = "work" /\ handlers[j].at = "work" =>
            <<handlers[i].chip, handlers[i].line>> # <<handlers[j].chip, handlers[j].line>>

\* Every request is served: no handler, no lost EOI and no other chip keeps
\* it pending for ever.
RequestsAreServed ==
    \A irq \in IRQ : irq[2] \in irr[irq[1]] ~> irq[2] \notin irr[irq[1]]
=============================================================================
