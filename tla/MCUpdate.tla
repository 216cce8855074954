------------------------------- MODULE MCUpdate -------------------------------
(* Update on a few files and releases.                                     *)
EXTENDS Update

\* One file of each kind: free, kept open by the tool, replaceable by nobody.
MCFiles == {"plugins", "library", "protected"}
MCHeld == {"library"}
MCStubborn == {"protected"}

AllFaults == {"download", "extract", "launch", "apply", "missing", "relaunch"}
==============================================================================
