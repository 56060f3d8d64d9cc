---- MODULE MCLifetimes ----
(* Every output with every decoder it is used with, with and without the UI *)
(* overlay and the writeback recording.                                     *)
EXTENDS Lifetimes

P(outs, uis, recs, decs) == [out : outs, ui : uis, rec : recs, dec : decs]

MCPrograms ==
    P({"async", "sync"}, {TRUE}, {TRUE}, {"rkmpp", "gst"})
    \cup P({"async"}, {FALSE}, {FALSE}, {"cedar", "imx", "rkmpp", "gst"})
    \cup P({"legacy"}, {FALSE}, {FALSE}, {"cedar", "imx", "rkmpp", "gst"})
    \cup P({"gles"}, {TRUE}, {FALSE}, {"imx"})
    \cup P({"sdl"}, {FALSE}, {FALSE}, {"none", "desktop"})
    \cup P({"kms"}, {FALSE}, {FALSE}, {"none"})
====
