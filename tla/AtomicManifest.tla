--------------------------- MODULE AtomicManifest ---------------------------
(***************************************************************************)
(* What recovery/store.rs promises of a manifest file, whoever uses it: it *)
(* is replaced whole or not at all.  A reader finds no file or a complete  *)
(* manifest somebody wrote; after a power failure the file is the last one *)
(* replaced or the last one known to be on the disk.                       *)
(***************************************************************************)
CONSTANTS Manifests,    \* complete manifests
          NoFile        \* there is no file

VARIABLES live,         \* what a reader of the path finds
          durable,      \* what it finds at least, once the power has failed
          offered       \* the manifests being written

vars == <<live, durable, offered>>

Init == live = NoFile /\ durable = NoFile /\ offered = {}

\* Writers come and go: a write may be begun, given up, or cut short by a crash.
Offer ==
  /\ offered' \in SUBSET Manifests
  /\ UNCHANGED <<live, durable>>

Replace ==
  /\ live' \in offered
  /\ offered' \in SUBSET offered
  /\ UNCHANGED durable

Harden ==
  /\ durable' = live
  /\ UNCHANGED live /\ offered' \in SUBSET Manifests

PowerFailure ==
  /\ live' \in {live, durable}
  /\ durable' = live'
  /\ offered' = {}

Next == Offer \/ Replace \/ Harden \/ PowerFailure

Spec == Init /\ [][Next]_vars
=============================================================================
