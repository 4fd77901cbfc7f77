---------------------------- MODULE XskOwnership ----------------------------
(***************************************************************************)
(* What the claim protocol of the loader and the AF_XDP receivers promises *)
(* (abstract specification): a program serves the receivers that joined    *)
(* it, and is detached only once all of them have left.                    *)
(***************************************************************************)
EXTENDS Naturals

CONSTANTS Users,       \* the receivers
          MaxPrograms  \* programs are numbered 1..MaxPrograms

VARIABLES program,     \* the attached program, 0 if none
          joined       \* user -> the program it joined, 0 if none

ownershipVars == <<program, joined>>

Init ==
  /\ program = 0
  /\ joined = [u \in Users |-> 0]

Attach ==
  /\ program = 0
  /\ program' \in 1..MaxPrograms
  /\ UNCHANGED joined

Join(u) ==
  /\ program # 0
  /\ joined[u] = 0
  /\ joined' = [joined EXCEPT ![u] = program]
  /\ UNCHANGED program

Leave(u) ==
  /\ joined[u] # 0
  /\ joined' = [joined EXCEPT ![u] = 0]
  /\ UNCHANGED program

Detach ==
  /\ program # 0
  /\ \A u \in Users : joined[u] = 0
  /\ program' = 0
  /\ UNCHANGED joined

Next ==
  \/ Attach
  \/ Detach
  \/ \E u \in Users : Join(u) \/ Leave(u)

Spec == Init /\ [][Next]_ownershipVars
=============================================================================
