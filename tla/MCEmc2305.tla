------------------------------ MODULE MCEmc2305 -------------------------------
\* An instance of Emc2305 for TLC: two fans of one chip.
EXTENDS Emc2305
CONSTANTS fan1, fan2
===============================================================================
