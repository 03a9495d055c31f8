---------------------------- MODULE MCSchemaBoot ----------------------------
(* Instances of SchemaBoot for TLC. *)
EXTENDS SchemaBoot

Text(definitions, caveat, form, comments) ==
  [definitions |-> definitions, caveat |-> caveat, form |-> form, comments |-> comments]

(* The schemas of tests/schema_verify_e2e.rs: the stored one, its          *)
(* equivalent (other comments, the caveat serialised differently), and the *)
(* two that differ functionally, in the caveat and in a permission.        *)
Stored     == Text("stored", "flag", "compact", "plain")
Equivalent == Text("stored", "flag", "spaced", "commented")
OtherCaveat == Text("stored", "!flag", "spaced", "plain")
OtherView   == Text("viewerOnly", "flag", "spaced", "plain")

E2ESchemas == {Stored, Equivalent, OtherCaveat, OtherView}

(* Processes boot with two of them, in both modes; meanwhile the others are*)
(* ensured, written and read through the manager.                          *)
E2ERequests ==
  [op : {"boot"}, schema : {Stored}, mode : {"VerifyOnly", "ApplyIfDifferent"}]
  \cup [op : {"boot"}, schema : {OtherView}, mode : {"ApplyIfDifferent"}]
  \cup [op : {"ensure"}, schema : {Equivalent}, mode : {"ApplyIfDifferent"}]
  \cup [op : {"write"}, schema : {OtherCaveat, OtherView}]
  \cup [op : {"read"}]

=============================================================================
