----------------------------- MODULE MCSmokezip -----------------------------
(***************************************************************************)
(* A case with a boundary file whose label has bounds in the .ini file,   *)
(* two slice files of one label without, a volume slice, two 3D smoke      *)
(* files of which -auto leaves out one, and two particle files.            *)
(***************************************************************************)
EXTENDS Smokezip

MCKind == <<"patch", "slice", "slice", "volslice", "smoke", "smoke", "part", "part">>
MCLead == <<1, 2, 2, 4, 5, 6, 7, 8>>
MCOpts == {[clean |-> FALSE, force |-> FALSE, bounds |-> TRUE],
           [clean |-> FALSE, force |-> TRUE,  bounds |-> FALSE],
           [clean |-> TRUE,  force |-> FALSE, bounds |-> FALSE]}
=============================================================================
