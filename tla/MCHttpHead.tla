----------------------------- MODULE MCHttpHead -----------------------------
(* The two headers for TLC.                                                *)
EXTENDS HttpHead

MCLengths == {0, 1, 10, 19}
MCUrls == {<<"/">>, <<"/", "x", "?", "9", "#", "x">>}
MCValues == {<<"x">>, <<"SP", "QT", "x", "BS", "QT", "QT">>}
MCAlphabet == Symbols \ {"2", "3", "4", "5", "6", "7", "8"}
=============================================================================
