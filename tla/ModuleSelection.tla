--------------------------- MODULE ModuleSelection ---------------------------
(***************************************************************************)
(* What the transceiver drivers expect of the selection of a module: from  *)
(* the return of module_select to module_deselect the caller is the only   *)
(* one that uses the module, and no module that shares a select group with *)
(* it is used either.                                                      *)
(***************************************************************************)

CONSTANTS
  Callers,  \* threads that call the drivers
  Modules,  \* transceivers that have to be selected
  Rivals    \* the modules that share a select group with a module, and itself

VARIABLE users  \* the callers that have each module selected

Init == users = [m \in Modules |-> {}]

\* module_select returns without an error.
Enter(c, m) ==
  /\ \A n \in Modules : c \notin users[n]
  /\ \A n \in Rivals[m] : users[n] = {}
  /\ users' = [users EXCEPT ![m] = {c}]

\* module_deselect.
Leave(c, m) ==
  /\ users[m] = {c}
  /\ users' = [users EXCEPT ![m] = {}]

Next == \E c \in Callers, m \in Modules : Enter(c, m) \/ Leave(c, m)

Spec == Init /\ [][Next]_users
==============================================================================
