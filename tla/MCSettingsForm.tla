--------------------------- MODULE MCSettingsForm ---------------------------
(* Values of the constants of SettingsForm for TLC.                        *)
EXTENDS SettingsForm, TLC

\* A text column and an array of dates.
TwoColumns  == <<"name", "days">>
TextColumn  == <<"name">>
AutoTypes   == [name |-> "textarea", days |-> "datepicker"]
OneList     == {<<"o">>}
AdminSymmetry == Permutations(Admins)
=============================================================================
