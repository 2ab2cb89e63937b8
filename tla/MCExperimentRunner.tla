------------------------- MODULE MCExperimentRunner -------------------------
(* Three configurations, two with a common prefix, as in the help text.    *)
EXTENDS ExperimentRunner

MCExperiments == {<<"none">>, <<"shadow">>, <<"shadow", "usb">>}
MCPatterns == {<<"none">>, <<"shadow">>}
=============================================================================
