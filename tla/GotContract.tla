---------------------------- MODULE GotContract ----------------------------
(***************************************************************************)
(* What the global offset table promises to the code that is linked, for   *)
(* the entries that are placed before any code is relocated (global and    *)
(* TLS symbols), whatever number of GOTs there are and whoever shares one. *)
(*                                                                         *)
(* A reference is a bfd and a symbol.  References leave the table before   *)
(* the first slot is placed, never later; slots are taken by one symbol,   *)
(* never moved and never taken back; and the code of a bfd is relocated    *)
(* once, when all its references have their slots.                         *)
(***************************************************************************)
EXTENDS Integers

CONSTANTS
  Bfds,   \* input bfds
  Symbols \* the symbols that they refer to

VARIABLES
  refs,     \* references <<bfd, symbol>> that go through the table
  uses,     \* <<bfd, symbol, slot>>: the slots that each reference uses
  relocated \* bfds whose code has been relocated

contractVars == <<refs, uses, relocated>>

Init ==
  /\ refs \subseteq Bfds \X Symbols
  /\ uses = {}
  /\ relocated = {}

\* The symbols that bind locally need no entry of their own.
Settle ==
  /\ uses = {} /\ relocated = {}
  /\ refs' \subseteq refs
  /\ UNCHANGED <<uses, relocated>>

\* Some references that have no slots are given theirs.
Place ==
  /\ relocated = {}
  /\ uses \subseteq uses'
  /\ \A u \in uses' \ uses :
       /\ <<u[1], u[2]>> \in refs
       /\ u[3] \in Nat
       /\ \A v \in uses : <<u[1], u[2]>> # <<v[1], v[2]>>
       /\ \A v \in uses' : u[3] = v[3] => u[2] = v[2]
  /\ UNCHANGED <<refs, relocated>>

Relocate(b) ==
  /\ b \notin relocated
  /\ \A r \in refs : r[1] = b => \E u \in uses : <<u[1], u[2]>> = r
  /\ relocated' = relocated \cup {b}
  /\ UNCHANGED <<refs, uses>>

Next == Settle \/ Place \/ \E b \in Bfds : Relocate(b)

Spec == Init /\ [][Next]_contractVars
=============================================================================
