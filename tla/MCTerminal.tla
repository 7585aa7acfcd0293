------------------------------- MODULE MCTerminal -------------------------------
(* Terminal with two letters: the word a is a command that needs an argument, *)
(* the word b one that reports, and every other word is none.  A full line of *)
(* five characters can hold a word too many.  Anything may come of following  *)
(* a pointer nobody set.  Of two events without a handler one has a name.     *)
EXTENDS Terminal

CONSTANTS a, b

MCLetters == {a, b}
MCCommandNames == {<<a>>, <<b>>}
MCNeedArgument == {<<a>>}
MCReporting == {<<b>>}
MCOtherEvents == {"BLE_GAP_EVT_RSSI_CHANGED", "BLE_GAP_EVT_SCAN_REQ_REPORT"}
MCGarbage == MCCommandNames \union {Help, Hang}
================================================================================
