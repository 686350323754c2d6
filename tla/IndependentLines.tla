---------------------------- MODULE IndependentLines -------------------------
(***************************************************************************)
(* What the pin and pin-group operations of a CPLD promise to their        *)
(* callers: a line is an object of its own.  After the initialisation only *)
(* the thread that holds a line can change its outputs, a step of one line *)
(* leaves the bits of every other line alone, and inputs change by         *)
(* themselves.  Registers, which lines share, are not visible here.        *)
(***************************************************************************)
CONSTANTS Threads, NoThread, Lines, Cells, Field, Outputs

VARIABLES
  high,     \* the cells that are 1
  owner,    \* the thread that holds a line, or NoThread
  booting   \* lines that are not initialised yet

avars == <<high, owner, booting>>

Inputs == UNION {Field[l] : l \in Lines \ Outputs}

Init ==
  /\ high \in SUBSET Cells
  /\ owner = [l \in Lines |-> NoThread]
  /\ booting = Lines

\* The cells of line l take some value; no other cell changes.
Change(l) ==
  \E v \in SUBSET Field[l] : high' = (high \ Field[l]) \cup v

Initialise(l) ==
  /\ l \in booting /\ booting' = booting \ {l}
  /\ IF l \in Outputs THEN Change(l) ELSE UNCHANGED high
  /\ UNCHANGED owner

Take(t, l) ==
  /\ booting = {} /\ owner[l] = NoThread
  /\ owner' = [owner EXCEPT ![l] = t]
  /\ UNCHANGED <<high, booting>>

Drive(t, l) ==
  /\ owner[l] = t /\ l \in Outputs
  /\ Change(l)
  /\ UNCHANGED <<owner, booting>>

Give(t, l) ==
  /\ owner[l] = t
  /\ owner' = [owner EXCEPT ![l] = NoThread]
  /\ UNCHANGED <<high, booting>>

Sense(c) ==
  /\ c \in Inputs
  /\ high' = IF c \in high THEN high \ {c} ELSE high \cup {c}
  /\ UNCHANGED <<owner, booting>>

Next ==
  \/ \E l \in Lines : Initialise(l)
  \/ \E t \in Threads, l \in Lines : Take(t, l) \/ Drive(t, l) \/ Give(t, l)
  \/ \E c \in Cells : Sense(c)

Spec == Init /\ [][Next]_avars
==============================================================================
