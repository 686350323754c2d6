----------------------------- MODULE RegisterFile -----------------------------
(***************************************************************************)
(* What the drivers expect of an I2C bus: every chip is a file of          *)
(* registers, and a call that returns without an error was carried out on  *)
(* the chip it names, at one moment between its start and its end.  A call *)
(* that fails may have been carried out or not.  Reading or writing a      *)
(* register leaves the chip's address counter behind it.  Receiving the    *)
(* byte at the counter is the one call that may be carried out repeatedly; *)
(* it answers what it came to last.                                        *)
(***************************************************************************)
EXTENDS Naturals

CONSTANTS
  Threads,    \* threads that make calls
  Chips,      \* chips on the bus
  Registers,  \* number of registers of a chip
  Values,     \* what a register may hold, 0 among it
  Requests    \* calls: [kind, chip, reg, val]

VARIABLES
  memory,   \* the registers of each chip
  counter,  \* the address counter of each chip
  request,  \* the call of each thread
  done,     \* it has been carried out
  data,     \* what it has read
  result    \* "none" until it returns

vars == <<memory, counter, request, done, data, result>>

NoRequest == [kind |-> "none"]

Init ==
  /\ memory \in [Chips -> [0..Registers-1 -> Values]]
  /\ counter \in [Chips -> 0..Registers-1]
  /\ request = [t \in Threads |-> NoRequest]
  /\ done = [t \in Threads |-> FALSE]
  /\ data = [t \in Threads |-> 0]
  /\ result = [t \in Threads |-> "none"]

Ask(t, r) ==
  /\ request[t] = NoRequest
  /\ request' = [request EXCEPT ![t] = r]
  /\ UNCHANGED <<memory, counter, done, data, result>>

\* The register that a call is about.
Register(r) == IF r.kind = "receive" THEN counter[r.chip] ELSE r.reg

CarryOut(t) ==
  LET r == request[t]
  IN /\ r # NoRequest /\ result[t] = "none"
     /\ done[t] => r.kind = "receive"
     /\ memory' = IF r.kind = "write"
                  THEN [memory EXCEPT ![r.chip][r.reg] = r.val] ELSE memory
     /\ counter' = [counter EXCEPT ![r.chip] = (Register(r) + 1) % Registers]
     /\ data' = IF r.kind = "write" THEN data
                ELSE [data EXCEPT ![t] = memory[r.chip][Register(r)]]
     /\ done' = [done EXCEPT ![t] = TRUE]
     /\ UNCHANGED <<request, result>>

Answer(t) ==
  /\ request[t] # NoRequest /\ result[t] = "none"
  /\ \/ result' = [result EXCEPT ![t] = "error"]
     \/ done[t] /\ result' = [result EXCEPT ![t] = "ok"]
  /\ UNCHANGED <<memory, counter, request, done, data>>

Return(t) ==
  /\ result[t] # "none"
  /\ request' = [request EXCEPT ![t] = NoRequest]
  /\ done' = [done EXCEPT ![t] = FALSE]
  /\ data' = [data EXCEPT ![t] = 0]
  /\ result' = [result EXCEPT ![t] = "none"]
  /\ UNCHANGED <<memory, counter>>

\* The daemon stops: its calls are gone, the chips are as they are.
Crash ==
  /\ request' = [t \in Threads |-> NoRequest]
  /\ done' = [t \in Threads |-> FALSE]
  /\ data' = [t \in Threads |-> 0]
  /\ result' = [t \in Threads |-> "none"]
  /\ UNCHANGED <<memory, counter>>

Next ==
  \/ \E t \in Threads : \/ \E r \in Requests : Ask(t, r)
                        \/ CarryOut(t) \/ Answer(t) \/ Return(t)
  \/ Crash

Spec == Init /\ [][Next]_vars
===============================================================================
