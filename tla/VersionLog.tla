------------------------------ MODULE VersionLog ------------------------------
(***************************************************************************)
(* What the registry of flows and profiles promises: per key an append-only  *)
(* list of published documents, and pins, each of which names a version that *)
(* exists and the document that it has.  Nobody can tell how a version comes *)
(* about: it is not there, and then it is, for ever.                         *)
(***************************************************************************)
EXTENDS Integers, Sequences

CONSTANTS Keys,   \* flows and profiles
          Docs    \* documents that pass validation

VARIABLES log,    \* the published versions of each key
          pins    \* what has been answered, pinned or set: key, version, document

LogInit == log = [k \in Keys |-> <<>>] /\ pins = {}

Publish ==
  \E k \in Keys, d \in Docs :
    /\ UNCHANGED pins
    /\ log' = [log EXCEPT ![k] = Append(@, d)]

Names(pin) ==
  \E k \in Keys : \E n \in 1 .. Len(log[k]) : pin = <<k, n, log[k][n]>>

Pin ==
  /\ UNCHANGED log
  /\ pins \subseteq pins'
  /\ \A pin \in pins' \ pins : Names(pin)

LogSpec == LogInit /\ [][Pin \/ Publish]_<<log, pins>>

-----------------------------------------------------------------------------
\* Every pin names, now and for ever, a version that exists, with its document.
PinsName == \A pin \in pins : Names(pin)
=============================================================================
