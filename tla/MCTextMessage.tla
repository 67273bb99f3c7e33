---- MODULE MCTextMessage ----
(* Instance of TextMessage for TLC: short texts of narrow and wide code    *)
(* points, and encodings that end in anything.                             *)
EXTENDS TextMessage

MCTexts == UNION {[1 .. n -> {1, 3, 4}] : n \in 0 .. 3}
MCEncodings == UNION {[1 .. n -> {0, 1, Terminator}] : n \in 0 .. 4}
====
