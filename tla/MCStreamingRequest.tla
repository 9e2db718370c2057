------------------------- MODULE MCStreamingRequest ------------------------
(* An instance of StreamingRequest for TLC: a block larger than the window, *)
(* then one that shares the window with the end of the stream.             *)
EXTENDS StreamingRequest

MCSize == <<3, 1>>
MCConfigs == {<<"none", 1, "no">>, <<"some", 2, "no">>, <<"some", 2, "yes">>}
=============================================================================
