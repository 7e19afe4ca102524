--------------------------- MODULE AbstractLookup ---------------------------
(***************************************************************************)
(* What the handlers rely on when they read data they only hold a          *)
(* commitment of: a lookup either returns exactly the data that was        *)
(* committed to, or it fails.  SignPsbt reads its PSBT this way.           *)
(***************************************************************************)
CONSTANTS
  Lookups,          \* the lookups a handler may make
  Committed(_, _),  \* what the commitment of a world says about a lookup
  None, Failed

VARIABLES world, lookup, outcome

Init == lookup = None /\ outcome = None

Begin ==
  /\ lookup' \in Lookups /\ outcome' = None
  /\ UNCHANGED world

Finish ==
  /\ lookup # None /\ outcome = None
  /\ outcome' \in {Failed, Committed(world, lookup)}
  /\ UNCHANGED <<world, lookup>>

\* The client starts over with the next command.
Forget == lookup' = None /\ outcome' = None /\ UNCHANGED world

Spec == Init /\ [][Begin \/ Finish \/ Forget]_<<world, lookup, outcome>>
=============================================================================
