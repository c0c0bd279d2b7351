----------------------------- MODULE MCOpenPlug -----------------------------
(* OpenPlug with the messages that tell its tests apart: a name may start  *)
(* like a switch command, and a flag may be given the value of erased      *)
(* flash.                                                                  *)
EXTENDS OpenPlug

MCMessages ==
    { <<"switch", "on">>, <<"switch", "off">>,
      <<"cold_on", "1">>, <<"cold_on", "0">>, <<"cold_on", "255">>,
      <<"alexa_on", "1">>, <<"alexa_on", "0">>,
      <<"voice_name", "office">> }
MCFlags == {"cold_on", "alexa_on"}
=============================================================================
