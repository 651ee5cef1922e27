---------------------------- MODULE ArchRegisters ----------------------------
(***************************************************************************)
(* The architectural registers as software sees them: a program executed   *)
(* in order, each instruction leaving its place in the program in the      *)
(* register it writes.                                                     *)
(***************************************************************************)
EXTENDS Integers, Sequences

CONSTANTS Arch, None

VARIABLES prog, pos, file

Init == pos = 1 /\ file = [r \in Arch |-> 0]

Step ==
  /\ pos \in DOMAIN prog
  /\ pos' = pos + 1
  /\ file' = IF prog[pos].dst = None THEN file
             ELSE [file EXCEPT ![prog[pos].dst] = pos]
  /\ UNCHANGED prog

Spec == Init /\ [][Step]_<<prog, pos, file>>
=============================================================================
