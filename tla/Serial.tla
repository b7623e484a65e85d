------------------------------- MODULE Serial -------------------------------
(***************************************************************************)
(* Where one serial-tracked unit is: the guards of                         *)
(* modules/inventory/ledger.service.ts read the serial's latest event,     *)
(* tenant-wide, ordered by event id, and the ids are the UUIDv7 of         *)
(* shared/primitives/ids.ts: a millisecond and a 12-bit sequence that each *)
(* process keeps for itself.  The serial's advisory lock makes an append   *)
(* one step.  An id's random tail only breaks ties.                        *)
(***************************************************************************)
EXTENDS Integers

CONSTANTS Processes,    \* processes that append, each with its own id state
          TenantBins,   \* bins of any warehouse
          Nowhere,      \* not in stock
          Span,         \* ids per millisecond before the sequence wraps (2^12)
          MaxMs,        \* latest clock reading
          MaxEvents,    \* longest history of the serial
          StepsBack     \* may a process's clock be set back?

ASSUME SerialAssumption ==
    /\ Nowhere \notin TenantBins
    /\ Span \in Nat \ {0, 1} /\ MaxMs \in Nat \ {0} /\ MaxEvents \in Nat
    /\ StepsBack \in BOOLEAN

VARIABLES
    clock,      \* what each process's Date.now() reads
    lastMs,     \* the millisecond its last id embedded
    lastRaw,    \* the reading it was minted at
    sequence,   \* the 12-bit sequence of its last id
    length,     \* events of the serial
    from, to,   \* their arms, in commit order
    ms, no,     \* their ids' millisecond and sequence
    \* ghosts
    appender,   \* who appended the last of them
    rewound,    \* its clock has gone back since, between two of its ids
    handed      \* the events that followed one of another process, or of a
                \* clock that has gone back since

ids        == <<clock, lastMs, lastRaw, sequence>>
events     == <<length, from, to, ms, no>>
handovers  == <<appender, rewound, handed>>
serialVars == <<ids, events, handovers>>

Places == TenantBins \cup {Nowhere}

-----------------------------------------------------------------------------
(* uuidv7. *)

Rewinds(p) == clock[p] < lastRaw[p]
Fresh(p) == clock[p] > lastMs[p] \/ Rewinds(p)
Wrapped(p) == sequence[p] + 1 = Span       \* the mask & 0x0fff leaves 0

\* Mutant: a wrap does not move the embedded millisecond.
NextMs_NoBump(p) ==
    IF Fresh(p) THEN clock[p] ELSE lastMs[p]

\* A new or an earlier reading restarts the sequence at random; otherwise it
\* goes on, and a wrap moves the embedded millisecond.
NextMs(p) ==
    IF Fresh(p) THEN clock[p] ELSE IF Wrapped(p) THEN lastMs[p] + 1 ELSE lastMs[p]

NextSequence(p, r) ==
    IF Fresh(p) THEN r ELSE IF Wrapped(p) THEN 0 ELSE sequence[p] + 1

Mint(p, r) ==
    /\ lastMs' = [lastMs EXCEPT ![p] = NextMs(p)]
    /\ lastRaw' = [lastRaw EXCEPT ![p] = clock[p]]
    /\ sequence' = [sequence EXCEPT ![p] = NextSequence(p, r)]

Starts == 0 .. Span - 2

-----------------------------------------------------------------------------
(* appendMovement's serial arm. *)

Before(d, e) == ms[d] < ms[e] \/ (ms[d] = ms[e] /\ no[d] < no[e])

\* The event that `order by id desc limit 1` returns.
Latest(e) == e \in 1 .. length /\ \A d \in 1 .. length : ~ Before(e, d)

\* assertSerialArmLegal: an intake needs a serial out of stock, a draw or a
\* relocation one that lives in the bin it leaves.
Legal(f) ==
    IF f = Nowhere THEN length = 0 \/ \E e \in 1 .. length : Latest(e) /\ to[e] = Nowhere
                   ELSE \E e \in 1 .. length : Latest(e) /\ to[e] = f

Handover(p) == length > 0 /\ (p # appender \/ rewound \/ Rewinds(p))

Append(p, f, t, r) ==
    /\ length < MaxEvents
    /\ f # t
    /\ Legal(f)
    /\ Mint(p, r)
    /\ length' = length + 1
    /\ from' = [from EXCEPT ![length + 1] = f]
    /\ to' = [to EXCEPT ![length + 1] = t]
    /\ ms' = [ms EXCEPT ![length + 1] = NextMs(p)]
    /\ no' = [no EXCEPT ![length + 1] = NextSequence(p, r)]
    /\ handed' = handed \cup {e \in {length + 1} : Handover(p)}
    /\ appender' = p
    /\ rewound' = FALSE
    /\ UNCHANGED clock

\* Any other row the process mints an id for.
MintOther(p, r) ==
    /\ lastMs[p] <= MaxMs
    /\ Mint(p, r)
    /\ rewound' = (rewound \/ (p = appender /\ Rewinds(p)))
    /\ UNCHANGED <<clock, events, appender, handed>>

\* Date.now() is read again; only a corrected clock goes back.
Tick(p) ==
    /\ \E t \in 1 .. MaxMs :
        /\ t < clock[p] => StepsBack
        /\ clock' = [clock EXCEPT ![p] = t]
    /\ UNCHANGED <<lastMs, lastRaw, sequence, events, handovers>>

SerialInit ==
    /\ clock = [p \in Processes |-> 1]
    /\ lastMs = [p \in Processes |-> 0]
    /\ lastRaw = [p \in Processes |-> 0]
    /\ sequence = [p \in Processes |-> 0]
    /\ length = 0
    /\ from = [e \in 1 .. MaxEvents |-> Nowhere]
    /\ to = [e \in 1 .. MaxEvents |-> Nowhere]
    /\ ms = [e \in 1 .. MaxEvents |-> 0]
    /\ no = [e \in 1 .. MaxEvents |-> 0]
    /\ appender \in Processes
    /\ rewound = FALSE
    /\ handed = {}

SerialNext ==
    \E p \in Processes :
        \/ \E f \in Places, t \in Places, r \in Starts : Append(p, f, t, r)
        \/ \E r \in Starts : MintOther(p, r)
        \/ Tick(p)

SerialSpec == SerialInit /\ [][SerialNext]_serialVars

-----------------------------------------------------------------------------
\* Wherever the serial passes from one process to another, or over a clock
\* that was set back, the later event has the later id.
HandoversOrdered == \A e \in handed : Before(e - 1, e)

\* "every append of one serial orders by it": the unit leaves each place it
\* entered, in the order its events committed, so that it is never in two
\* places and never drawn twice.
Chained == \A e \in 1 .. length : from[e] = IF e = 1 THEN Nowhere ELSE to[e - 1]

\* The guards can only be misled at a handover to a clock that is behind:
\* with any number of processes and any clocks, whatever else they mint and
\* however often their sequences wrap, a serial whose handovers are ordered
\* is chained.
SerialChain == HandoversOrdered => Chained
=============================================================================
